---- MODULE Spec2Model ----
(***************************************************************************)
(* SignalScan PRO: the ingestion -> enrichment -> classification -> signal *)
(* pipeline.  Each component of src/scanners is modelled by its state and  *)
(* one action per handler.  Components that share no state are analysed   *)
(* under their own specification (SpecChannel, SpecNews, ...); all         *)
(* specifications share the variables and Init.                            *)
(*                                                                         *)
(* Conventions.  A Python dict is a function whose DOMAIN is the set of    *)
(* its keys.  Prices are whole dollars, volumes are shares, times are      *)
(* seconds of the exchange-local day, percentages are whole percent; the   *)
(* input sets are chosen so that every division the code performs on them  *)
(* is exact.  A missing or falsy numeric field (None, 0, absent key) is 0. *)
(***************************************************************************)
EXTENDS Integers, Sequences, FiniteSets, TLC

VARIABLES
    now,                    \* wall clock (time.time() / datetime.now())
    updates,                \* number of handler invocations so far
    \* ---- event delivery (one Queue + QTimer drain per producer category)
    signal_queue,           \* category -> sequence of queued records
    pushed,                 \* category -> number of records ever put
    dispatched,             \* category -> sequence of records emitted by the drain
    removed,                \* category -> set of record numbers taken off the queue
    emitted,                \* set of <<category, execution context>> of signal emits
    \* ---- Tier 3 (TradierCategorizer)
    live_data, prev_closes, day_highs, price_history, channels,
    no_data_symbols, prev_close_cache_time, failed_categorizations,
    lastCat,                \* outcome of the last _categorize_symbol call
    eval_log,               \* symbol -> summary of its evaluations so far
    \* ---- News Aggregator
    seen_news_ids,
    bkgnews_json,           \* data/bkgnews.json
    news_json,              \* data/news.json
    news_log,               \* history of _process_news_item calls, per news id
    \* ---- Halt Reconciler (NasdaqHaltScanner)
    active_halts,
    active_halts_json,      \* data/active_halts.json
    resumed_by,             \* feed entries that moved a symbol Halted -> Resumed
    \* ---- Halt Reconciler (HaltMonitor)
    halt_cycle,             \* what the last fetch cycle saw and merged
    \* ---- Momo engines
    squeeze_samples,        \* symbol -> len(price_history[symbol]), MomoSqueeze
    squeeze_state,          \* symbol -> [status, bars_coiling, last_fire]
    squeeze_on_run,         \* symbol -> squeeze-on computed ticks in a row, up to the latest
    squeeze_last_calc,      \* symbol -> time of the last computed tick
    last_intensity,         \* arguments and result of the last _calculate_intensity
    trend_samples,          \* symbol -> len(price_history[symbol]), MomoTrend
    trend_last_calc,        \* symbol -> time of the last computed tick
    vector_bars,            \* symbol -> timeframe -> len(price_history), MomoVector
    vector_bar_time,        \* symbol -> timeframe -> bar_counters
    vector_vwap,            \* symbol -> sums of the VWAP of the timeframes
    vector_last_calc,       \* symbol -> time of the last computed tick
    vector_log,             \* symbol -> samples collected, computed ticks
    momo_scans,             \* engine -> what its scans did so far
    \* ---- secondary news poller
    current_provider_index,
    poll_log,               \* the fetches of _run_secondary so far
    \* ---- previous-close lookups
    lookup_log,             \* symbol -> the fetch_prev_closes calls naming it
    \* ---- news cleanup
    cleanup_runs,           \* number of _cleanup_old_news calls so far
    \* ---- the news threads, statement by statement
    news_calls,             \* thread -> its _process_news_item call in progress
    cleanup_call,           \* the _cleanup_old_news call in progress
    news_accepted,          \* items whose processing stored them and returned
    \* ---- worker threads and their stop flags
    stop_event,             \* component -> threading.Event is set
    workers,                \* worker kind -> position of each thread started
    starts,                 \* number of start() calls so far
    ended_by_exception,     \* worker kinds a thread of which an exception ended
    \* ---- Tier 1 (Tier1Alpaca)
    prefilter_json,         \* data/prefilter.json
    scan_log,               \* inputs and requests of the last run_scan
    \* ---- HTTP requests
    blocked,                \* thread -> the request it waits in, if any
    \* ---- Tier 3 streaming subscription
    ws,                     \* number of the current WebSocketApp, 0 = None
    session_id,             \* 0 = None
    subscribed_symbols,
    ws_sent,                \* symbol -> subscribe requests naming it on self.ws
    ws_cycled,              \* a _run_loop cycle has completed on self.ws
    ws_open,                \* number of the WebSocketApp whose socket is open
    ws_delivered,           \* <<connection, symbol>> of the sends that succeeded
    \* ---- Tier 2 (AlpacaValidator)
    stream,                 \* 0 = None, 1 = the StockDataStream
    alpaca_subscribed_symbols,
    alpaca_validated_data,  \* symbol -> entry
    validated_json,         \* data/validated.json
    quotes_sent,            \* symbol -> subscribe_quotes calls naming it
    trades_sent             \* symbol -> subscribe_trades calls naming it

deliveryVars == <<signal_queue, pushed, dispatched, removed, emitted>>
tier3Vars == <<live_data, prev_closes, day_highs, price_history, channels,
               no_data_symbols, prev_close_cache_time, failed_categorizations,
               lastCat, eval_log>>
newsVars == <<seen_news_ids, bkgnews_json, news_json, news_log>>
scannerVars == <<active_halts, active_halts_json, resumed_by>>
monitorVars == <<halt_cycle>>
squeezeVars == <<squeeze_samples, squeeze_state, squeeze_on_run, squeeze_last_calc,
    last_intensity>>
trendVars == <<trend_samples, trend_last_calc>>
vectorVars == <<vector_bars, vector_bar_time, vector_vwap, vector_last_calc,
                vector_log>>
scanVars == <<momo_scans>>
pollVars == <<current_provider_index, poll_log>>
cleanupVars == <<cleanup_runs>>
lookupVars == <<lookup_log>>
newsThreadVars == <<news_calls, cleanup_call, news_accepted>>
lifeVars == <<stop_event, workers, starts, ended_by_exception>>
tier1Vars == <<prefilter_json, scan_log>>
netVars == <<blocked>>
subsVars == <<ws, session_id, subscribed_symbols, ws_sent, ws_cycled, ws_open,
    ws_delivered>>
tier2Vars == <<stream, alpaca_subscribed_symbols, alpaca_validated_data,
               validated_json, quotes_sent, trades_sent>>
nonTier3Vars == <<newsVars, scannerVars, monitorVars, squeezeVars, trendVars,
    lifeVars, tier1Vars, netVars, subsVars, tier2Vars, vectorVars, scanVars,
    pollVars, cleanupVars, newsThreadVars, lookupVars>>
nonNewsVars == <<tier3Vars, scannerVars, monitorVars, squeezeVars, trendVars,
    lifeVars, tier1Vars, netVars, subsVars, tier2Vars, vectorVars, scanVars,
    pollVars, cleanupVars, newsThreadVars, lookupVars>>
nonScannerVars == <<tier3Vars, newsVars, monitorVars, squeezeVars, trendVars,
    lifeVars, tier1Vars, netVars, subsVars, tier2Vars, vectorVars, scanVars,
    pollVars, cleanupVars, newsThreadVars, lookupVars>>
nonMonitorVars == <<tier3Vars, newsVars, scannerVars, squeezeVars, trendVars,
    lifeVars, tier1Vars, netVars, subsVars, tier2Vars, vectorVars, scanVars,
    pollVars, cleanupVars, newsThreadVars, lookupVars>>
nonSqueezeVars == <<tier3Vars, newsVars, scannerVars, monitorVars, trendVars,
    lifeVars, tier1Vars, netVars, subsVars, tier2Vars, vectorVars, scanVars,
    pollVars, cleanupVars, newsThreadVars, lookupVars>>
nonTrendVars == <<tier3Vars, newsVars, scannerVars, monitorVars, squeezeVars,
    lifeVars, tier1Vars, netVars, subsVars, tier2Vars, vectorVars, scanVars,
    pollVars, cleanupVars, newsThreadVars, lookupVars>>
nonLifeVars == <<tier3Vars, newsVars, scannerVars, monitorVars, squeezeVars,
    trendVars, tier1Vars, netVars, subsVars, tier2Vars, vectorVars, scanVars,
    pollVars, cleanupVars, newsThreadVars, lookupVars>>
nonTier1Vars == <<tier3Vars, newsVars, scannerVars, monitorVars, squeezeVars,
    trendVars, lifeVars, netVars, subsVars, tier2Vars, vectorVars, scanVars,
    pollVars, cleanupVars, newsThreadVars, lookupVars>>
nonNetVars == <<tier3Vars, newsVars, scannerVars, monitorVars, squeezeVars,
    trendVars, lifeVars, tier1Vars, subsVars, tier2Vars, vectorVars,
    scanVars, pollVars, cleanupVars, newsThreadVars, lookupVars>>
nonSubsVars == <<tier3Vars, newsVars, scannerVars, monitorVars, squeezeVars,
    trendVars, lifeVars, tier1Vars, netVars, tier2Vars, vectorVars, scanVars,
    pollVars, cleanupVars, newsThreadVars, lookupVars>>
nonTier2Vars == <<tier3Vars, newsVars, scannerVars, monitorVars, squeezeVars,
    trendVars, lifeVars, tier1Vars, netVars, subsVars, vectorVars, scanVars,
    pollVars, cleanupVars, newsThreadVars, lookupVars>>
nonVectorVars == <<tier3Vars, newsVars, scannerVars, monitorVars,
    squeezeVars, trendVars, lifeVars, tier1Vars, netVars, subsVars,
    tier2Vars, scanVars, pollVars, cleanupVars, newsThreadVars, lookupVars>>
nonScanVars == <<tier3Vars, newsVars, scannerVars, monitorVars, squeezeVars,
    trendVars, lifeVars, tier1Vars, netVars, subsVars, tier2Vars, vectorVars,
    pollVars, cleanupVars, newsThreadVars, lookupVars>>
nonPollVars == <<tier3Vars, newsVars, scannerVars, monitorVars, squeezeVars,
    trendVars, lifeVars, tier1Vars, netVars, subsVars, tier2Vars, vectorVars,
    scanVars, cleanupVars, newsThreadVars, lookupVars>>
nonCleanupVars == <<tier3Vars, newsVars, scannerVars, monitorVars,
    squeezeVars, trendVars, lifeVars, tier1Vars, netVars, subsVars,
    tier2Vars, vectorVars, scanVars, pollVars, newsThreadVars, lookupVars>>
nonNewsThreadOnlyVars == <<tier3Vars, newsVars, scannerVars, monitorVars,
    squeezeVars, trendVars, lifeVars, tier1Vars, netVars, subsVars,
    tier2Vars, vectorVars, scanVars, pollVars, cleanupVars, lookupVars>>
nonLookupVars == <<tier3Vars, newsVars, scannerVars, monitorVars,
    squeezeVars, trendVars, lifeVars, tier1Vars, netVars, subsVars,
    tier2Vars, vectorVars, scanVars, pollVars, cleanupVars, newsThreadVars>>
nonTier3SubsVars == <<newsVars, scannerVars, monitorVars, squeezeVars,
    trendVars, lifeVars, tier1Vars, netVars, tier2Vars, vectorVars, scanVars,
    pollVars, cleanupVars, newsThreadVars, lookupVars>>
nonMomoVars == <<tier3Vars, newsVars, scannerVars, monitorVars, lifeVars,
    tier1Vars, netVars, subsVars, tier2Vars, pollVars, cleanupVars,
    newsThreadVars, lookupVars>>
nonNewsPollVars == <<tier3Vars, scannerVars, monitorVars, squeezeVars,
    trendVars, lifeVars, tier1Vars, netVars, subsVars, tier2Vars, vectorVars,
    scanVars, cleanupVars, newsThreadVars, lookupVars>>
nonNewsCleanupVars == <<tier3Vars, scannerVars, monitorVars, squeezeVars,
    trendVars, lifeVars, tier1Vars, netVars, subsVars, tier2Vars, vectorVars,
    scanVars, pollVars, newsThreadVars, lookupVars>>
nonTier3LookupVars == <<newsVars, scannerVars, monitorVars, squeezeVars,
    trendVars, lifeVars, tier1Vars, netVars, subsVars, tier2Vars, vectorVars,
    scanVars, pollVars, cleanupVars, newsThreadVars>>
nonNewsThreadVars == <<tier3Vars, scannerVars, monitorVars, squeezeVars,
    trendVars, lifeVars, tier1Vars, netVars, subsVars, tier2Vars, vectorVars,
    scanVars, pollVars, cleanupVars, lookupVars>>
nonNewsCleanupThreadVars == <<tier3Vars, scannerVars, monitorVars,
    squeezeVars, trendVars, lifeVars, tier1Vars, netVars, subsVars,
    tier2Vars, vectorVars, scanVars, pollVars, lookupVars>>

---------------------------------------------------------------------------
(* Bounds of the model *)
MaxUpdates == 3             \* handler invocations in one run
MaxStarts == 2              \* start() calls in one run
MaxScans == 1               \* run_scan calls in one run
MaxNetTime == 33950         \* end of the run of the request model
MaxTime == 34500            \* the clock stops advancing at 09:35:00
MaxNewsItems == 3           \* news items processed in one run
MaxFetches == 2             \* fetch cycles of a halt poller in one run
MaxFeedLen == 2             \* entries of one halt feed
MaxSqueezeSamples == 28     \* samples MomoSqueeze collects of a symbol in one run
MaxTrendSamples == 22       \* samples MomoTrend collects of a symbol in one run
MaxMomoTime == 33930        \* the clock of a Momo run stops here
MaxPolls == 3               \* cycles of the secondary news poller in one run
MaxMomoScans == 2           \* scans of one Momo engine in one run
MaxVectorCalls == 6          \* update_symbol_vector calls of a symbol in one run
MaxVectorTime == 34200      \* the clock of a Vector run stops here
MaxCooldownTime == 33960    \* the clock of a cooldown run stops here
MaxCleanups == 2            \* _cleanup_old_news calls in one run
MaxLookups == 5             \* fetch_prev_closes calls in one run
MaxLookupTime == 37500      \* the clock of a lookup run stops one hour after T0
MaxNewsTime == 293100       \* the clock of a cleanup run stops 72 h after T0

(* Input sets *)
Symbols == {"X"}
TimeSteps == {300}
cooldown_step == 30
Categories == {"channel", "halt", "news", "squeeze", "vector", "trend"}
QueueCategories == {"channel", "halt", "news", "squeeze"}

---------------------------------------------------------------------------
(* Python dict helpers *)
EmptyDict == [k \in {} |-> 0]
Put(d, k, v) == [x \in (DOMAIN d) \cup {k} |-> IF x = k THEN v ELSE d[x]]
Get(d, k, default) == IF k \in DOMAIN d THEN d[k] ELSE default
Abs(x) == IF x < 0 THEN 0 - x ELSE x
Max(a, b) == IF a >= b THEN a ELSE b
\* exact quotient of the model's inputs (truncates toward zero otherwise)
Div(a, b) == IF a >= 0 THEN a \div b ELSE 0 - ((0 - a) \div b)

---------------------------------------------------------------------------
(* Event delivery: queue.Queue.put on the producer thread, and one         *)
(* iteration of the while-loop of _process_signal_queue on the GUI thread. *)

QueuePut(q, rec) == Append(q, rec)
QueueHead(q) == Head(q)
QueueRest(q) == Tail(q)

\* signal_queue.put(payload) by the worker of category c
PushEffect(c, payload) ==
    /\ signal_queue' = [signal_queue EXCEPT
           ![c] = QueuePut(@, [seq |-> pushed[c] + 1, tag |-> payload])]
    /\ pushed' = [pushed EXCEPT ![c] = @ + 1]
    /\ UNCHANGED <<dispatched, removed, emitted>>

---------------------------------------------------------------------------
(* config/channel_rules.py *)
pregap_price_min == 1
pregap_price_max == 15
pregap_gap_pct_min == 10
pregap_rvol_min == 2
pregap_float_max == 100000000
pregap_volume_avg_min == 500000
hod_price_min == 1
hod_price_max == 15
hod_rvol_5min_min == 5
hod_float_max == 100000000
hod_gap_pct_min == 10
runup_price_min == 1
runup_price_max == 15
runup_rvol_5min_min == 5
runup_float_max == 10000000
runup_gap_pct_min == 10
runup_quick_move_5min == 5
runup_quick_move_10min == 10
rvsl_price_max == 15
rvsl_rvol_min == 8
rvsl_gap_pct_min == 8
news_age_max_hours == 2
premarket_start == 14400        \* '04:00'
premarket_end == 34200          \* '09:30'
regular_start == 34200          \* '09:30'
regular_end == 57600            \* '16:00'

\* the run starts at 09:25:00, five minutes before the open
T0 == premarket_end - 300

(* scanners/channel_detector.py *)
IsPremarket(t) == premarket_start <= t /\ t < premarket_end
IsRegularHours(t) == regular_start <= t /\ t < regular_end

CheckBkgnews(d) ==
    d.has_breaking_news /\ d.news_age_sec <= news_age_max_hours * 3600

CheckPregap(d, t) ==
    /\ IsPremarket(t)
    /\ pregap_price_min <= d.price /\ d.price <= pregap_price_max
    /\ d.gap_pct >= pregap_gap_pct_min
    /\ d.rvol >= pregap_rvol_min
    /\ d.float <= pregap_float_max
    /\ d.volume_avg >= pregap_volume_avg_min

CheckHod(d, t) ==
    /\ IsRegularHours(t)
    /\ hod_price_min <= d.price /\ d.price <= hod_price_max
    /\ d.is_hod
    /\ d.rvol_5min >= hod_rvol_5min_min
    /\ d.float <= hod_float_max
    /\ d.gap_pct >= hod_gap_pct_min

CheckRunup(d, t) ==
    /\ IsRegularHours(t)
    /\ runup_price_min <= d.price /\ d.price <= runup_price_max
    /\ d.rvol_5min >= runup_rvol_5min_min
    /\ d.float <= runup_float_max
    /\ d.gap_pct >= runup_gap_pct_min
    /\ (d.move_5min >= runup_quick_move_5min \/ d.move_10min >= runup_quick_move_10min)

CheckRvsl(d, t) ==
    /\ IsRegularHours(t)
    /\ d.price <= rvsl_price_max
    /\ d.rvol >= rvsl_rvol_min
    /\ Abs(d.gap_pct) >= rvsl_gap_pct_min

\* a slip in the priority chain: the reversal rule tried before RunUp
detect_channel_rvsl_first(d, t) ==
    IF CheckBkgnews(d) THEN "bkgnews"
    ELSE IF CheckPregap(d, t) THEN "pregap"
    ELSE IF CheckRvsl(d, t) THEN "rvsl"
    ELSE IF CheckRunup(d, t) THEN "runup"
    ELSE IF CheckHod(d, t) THEN "hod"
    ELSE "none"

detect_channel(d, t) ==
    IF CheckBkgnews(d) THEN "bkgnews"
    ELSE IF CheckPregap(d, t) THEN "pregap"
    ELSE IF CheckRunup(d, t) THEN "runup"
    ELSE IF CheckHod(d, t) THEN "hod"
    ELSE IF CheckRvsl(d, t) THEN "rvsl"
    ELSE "none"

---------------------------------------------------------------------------
(* scanners/tier3_tradier.py: TradierCategorizer *)
cache_duration == 3600
categorization_cooldown == 60
history_window == 900           \* "last 15 minutes of history"
five_min == 300
ten_min == 600
default_volume_avg == 1000000
default_float == 50000000
no_news_age_hours == 999

(* Inputs of the Tier 3 handlers *)
\* <<price, cvol>> of a trade message, <<bid, ask>> of a quote message
TradeInputs == {<<0, 0>>, <<4, 9000000>>, <<5, 9000000>>}
QuotePairs == {<<4, 6>>}
\* <<bidsz, asksz>> of a quote message
QuoteSizes == {<<1, 2>>}
\* the row of data/validated.json for the symbol ({} when it has none)
ValidatedRows ==
    { EmptyDict,
      [prev_close |-> 4, volume_avg |-> 1000000, float |-> 5000000],
      [prev_close |-> 0, volume_avg |-> 0] }
\* answers of the daily-history endpoint to one lookup: a close price, no
\* close or no history at all ("nodata"), or a failed request
FetchOutcomes ==
    { [kind |-> "close", close |-> 5],
      [kind |-> "close", close |-> -1],
      [kind |-> "nodata", close |-> 0],
      [kind |-> "error", close |-> 0] }
\* contents data/bkgnews.json may hold when the run starts; provider ids are
\* opaque strings, so a key may or may not coincide with a ticker
BkgnewsFiles ==
    { EmptyDict,
      [k \in {"X"} |-> [symbol |-> "X", timestamp |-> T0 + 300 - 7200,
                        aware |-> TRUE]],
      [k \in {"n1"} |-> [symbol |-> "X", timestamp |-> T0 + 300 - 7200,
                         aware |-> TRUE]] }

\* a cooldown that still holds when exactly the cooldown has passed
InCooldownInclusive(symbol) ==
    /\ symbol \in DOMAIN failed_categorizations
    /\ now - failed_categorizations[symbol] <= categorization_cooldown

\* "Check cooldown - skip if recently failed to categorize"
InCooldown(symbol) ==
    /\ symbol \in DOMAIN failed_categorizations
    /\ now - failed_categorizations[symbol] < categorization_cooldown

\* the endpoint is asked only by a call that issues a request
LookupAnswers(symbol, validated_data) ==
    IF \/ InCooldown(symbol)
       \/ ("prev_close" \in DOMAIN validated_data
           /\ validated_data.prev_close > 0)
       \/ (symbol \in DOMAIN prev_closes /\ prev_closes[symbol] > 0)
       \/ symbol \in no_data_symbols
       \/ (symbol \in DOMAIN prev_close_cache_time
           /\ now - prev_close_cache_time[symbol] < cache_duration)
    THEN {[kind |-> "error", close |-> 0]}
    ELSE FetchOutcomes

NewEntry ==
    [symbol |-> "", bid |-> 0, ask |-> 0, bid_size |-> 0, ask_size |-> 0,
     last_update |-> 0, price |-> 0, volume |-> 0, timestamp |-> 0]

\* a filter that leaves blacklisted symbols in symbols_to_fetch
IssuesLookupOfBlacklisted(st, symbol, t) ==
    ~ (symbol \in DOMAIN st.prev_close_cache_time
       /\ t - st.prev_close_cache_time[symbol] < cache_duration)

\* "Filter out blacklisted symbols and recently cached ones": symbol is in
\* symbols_to_fetch
IssuesLookup(st, symbol, t) ==
    /\ symbol \notin st.no_data_symbols
    /\ ~ (symbol \in DOMAIN st.prev_close_cache_time
          /\ t - st.prev_close_cache_time[symbol] < cache_duration)

\* fetch_prev_closes([symbol]) with the endpoint answering `outcome`
fetch_prev_closes(st, symbol, outcome, t) ==
    IF ~ IssuesLookup(st, symbol, t) THEN st
    ELSE IF outcome.kind = "close" THEN
        [st EXCEPT !.prev_closes = Put(@, symbol, outcome.close),
                   !.prev_close_cache_time = Put(@, symbol, t)]
    ELSE IF outcome.kind = "nodata" THEN
        [st EXCEPT !.no_data_symbols = @ \cup {symbol}]
    ELSE st

\* fetch_prev_closes([symbol]) called on its own
LookupSymbols == {"X", "Z"}
\* the calls looked at are half a cache period apart
lookup_step == cache_duration \div 2
NoLookup == [calls |-> 0, requests |-> 0, last_kind |-> "none",
             last_success |-> -1, confirmed_no_data |-> FALSE]
FetchPrevCloses(symbol, outcome) ==
    /\ updates < MaxLookups
    /\ updates' = updates + 1
    /\ LET st0 == [prev_closes |-> prev_closes,
                   no_data_symbols |-> no_data_symbols,
                   prev_close_cache_time |-> prev_close_cache_time]
           issued == IssuesLookup(st0, symbol, now)
           st1 == fetch_prev_closes(st0, symbol, outcome, now)
       IN  /\ ~ issued => outcome.kind = "error"
           /\ prev_closes' = st1.prev_closes
           /\ no_data_symbols' = st1.no_data_symbols
           /\ prev_close_cache_time' = st1.prev_close_cache_time
           /\ lookup_log' = [lookup_log EXCEPT ![symbol] =
                  IF issued
                  THEN [calls |-> @.calls + 1,
                        requests |-> @.requests + 1,
                        last_kind |-> outcome.kind,
                        last_success |-> IF outcome.kind = "close"
                                         THEN now ELSE @.last_success,
                        confirmed_no_data |->
                            @.confirmed_no_data \/ outcome.kind = "nodata"]
                  ELSE [@ EXCEPT !.calls = @ + 1, !.last_kind = "none"]]
    /\ UNCHANGED <<now, live_data, day_highs, price_history, channels,
                   failed_categorizations, lastCat, eval_log, deliveryVars,
                   nonTier3LookupVars>>

LookupTick ==
    /\ now + lookup_step <= MaxLookupTime
    /\ now' = now + lookup_step
    /\ UNCHANGED <<updates, deliveryVars, tier3Vars, nonTier3Vars>>

\* the faulty variant: the division is guarded by the price only
GapPctUnguarded(price, prev_close) ==
    IF price > 0 THEN
        IF prev_close = 0
        THEN [raised |-> TRUE, gap_pct |-> 0, prev_close |-> 0]
        ELSE [raised |-> FALSE,
              gap_pct |-> Div((price - prev_close) * 100, prev_close),
              prev_close |-> prev_close]
    ELSE [raised |-> FALSE, gap_pct |-> 0, prev_close |-> 0]

\* "Calculate gap_pct": raised marks a ZeroDivisionError
GapPct(price, prev_close) ==
    IF prev_close > 0 /\ price > 0
    THEN [raised |-> FALSE,
          gap_pct |-> Div((price - prev_close) * 100, prev_close),
          prev_close |-> prev_close]
    ELSE [raised |-> FALSE, gap_pct |-> 0, prev_close |-> 0]

\* percentage move against the last price recorded at or before `since`
PriceMove(history, price, since) ==
    LET old_prices == SelectSeq(history, LAMBDA e : e.ts <= since)
    IN  IF old_prices # << >>
        THEN LET old_price == old_prices[Len(old_prices)].p
             IN  IF old_price > 0
                 THEN Div((price - old_price) * 100, old_price) ELSE 0
        ELSE 0

\* _enrich_stock_data(symbol, live_data): the enriched record and the state
\* the call leaves behind
enrich_stock_data(symbol, ld, validated_data, outcome) ==
    LET price == IF ld.price # 0 THEN ld.price
                 ELSE IF ld.bid # 0 /\ ld.ask # 0
                      THEN Div(ld.bid + ld.ask, 2) ELSE 0
        st0 == [prev_closes |-> prev_closes,
                no_data_symbols |-> no_data_symbols,
                prev_close_cache_time |-> prev_close_cache_time]
        from_validated == "prev_close" \in DOMAIN validated_data
                          /\ validated_data.prev_close > 0
        from_cache == symbol \in DOMAIN prev_closes /\ prev_closes[symbol] > 0
        st1 == IF from_validated \/ from_cache THEN st0
               ELSE fetch_prev_closes(st0, symbol, outcome, now)
        prev_close == IF from_validated THEN validated_data.prev_close
                      ELSE IF from_cache THEN prev_closes[symbol]
                      ELSE Get(st1.prev_closes, symbol, 0)
        gap == GapPct(price, prev_close)
        current_high == Get(day_highs, symbol, price)
        is_hod == price > current_high
        highs1 == IF is_hod THEN Put(day_highs, symbol, price) ELSE day_highs
        current_vol == ld.volume
        avg_vol == Get(validated_data, "volume_avg", default_volume_avg)
        rvol == IF avg_vol > 0 THEN Div(current_vol, avg_vol) ELSE 0
        appended == Append(Get(price_history, symbol, << >>),
                           [ts |-> now, p |-> price])
        history == SelectSeq(appended, LAMBDA e : e.ts > now - history_window)
        has_news == symbol \in DOMAIN bkgnews_json
        data == [price |-> price,
                 prev_close |-> gap.prev_close,
                 gap_pct |-> gap.gap_pct,
                 is_hod |-> is_hod,
                 hod_price |-> Get(highs1, symbol, price),
                 volume_avg |-> avg_vol,
                 rvol |-> rvol,
                 rvol_5min |-> rvol,
                 move_5min |-> PriceMove(history, price, now - five_min),
                 move_10min |-> PriceMove(history, price, now - ten_min),
                 float |-> Get(validated_data, "float", default_float),
                 has_breaking_news |-> has_news,
                 news_age_sec |-> IF has_news
                                  THEN now - bkgnews_json[symbol].timestamp
                                  ELSE no_news_age_hours * 3600]
        \* "except Exception: return live_data": the detector then reads its
        \* defaults from the raw entry
        raw == [price |-> ld.price, prev_close |-> 0, gap_pct |-> 0,
                is_hod |-> FALSE, hod_price |-> 0, volume_avg |-> 0,
                rvol |-> 0, rvol_5min |-> 0, move_5min |-> 0, move_10min |-> 0,
                float |-> 0, has_breaking_news |-> FALSE,
                news_age_sec |-> no_news_age_hours * 3600]
    IN  [data |-> IF gap.raised THEN raw ELSE data,
         raised |-> gap.raised,
         prev_closes |-> st1.prev_closes,
         no_data_symbols |-> st1.no_data_symbols,
         prev_close_cache_time |-> st1.prev_close_cache_time,
         day_highs |-> IF gap.raised THEN day_highs ELSE highs1,
         price_history |-> IF gap.raised THEN price_history
                           ELSE Put(price_history, symbol, history)]

ChannelNames == {"pregap", "hod", "runup", "rvsl", "bkgnews"}
NoCat == [symbol |-> "", evaluated |-> FALSE, channel |-> "none",
          matching |-> {}, pushes |-> 0, raised |-> FALSE,
          known_prev |-> 0, gap_pct |-> 0, price |-> 0, is_hod |-> FALSE,
          hod_price |-> 0,
          has_breaking_news |-> FALSE, news_age_sec |-> 0]
\* what is known of the evaluations of a symbol: how many there were, the
\* time and the result of the last one, the highest price evaluated, and
\* the highest price evaluated before the last one
NoEval == [count |-> 0, t |-> 0, channel |-> "none", high |-> 0,
           prior_high |-> 0]

\* the rules that hold of an enriched record
MatchingRules(d, t) ==
    (IF CheckBkgnews(d) THEN {"bkgnews"} ELSE {}) \cup
    (IF CheckPregap(d, t) THEN {"pregap"} ELSE {}) \cup
    (IF CheckRunup(d, t) THEN {"runup"} ELSE {}) \cup
    (IF CheckHod(d, t) THEN {"hod"} ELSE {}) \cup
    (IF CheckRvsl(d, t) THEN {"rvsl"} ELSE {})

\* a signal only for a symbol that was not in the channel yet
ShouldQueueOnce(channel, symbol) ==
    /\ channel # "none"
    /\ \A i \in 1..Len(channels[channel]) : channels[channel][i] # symbol

\* "Queue signal emission for main thread": if channel
ShouldQueue(channel, symbol) == channel # "none"

\* _categorize_symbol(symbol), called with the live entry the handler wrote
categorize_symbol(symbol, ld, validated_data, outcome) ==
    IF InCooldown(symbol)
    THEN /\ UNCHANGED <<prev_closes, day_highs, price_history, channels,
                        no_data_symbols, prev_close_cache_time,
                        failed_categorizations, eval_log, deliveryVars>>
         /\ lastCat' = [NoCat EXCEPT !.symbol = symbol]
    ELSE
      \* enrich_stock_data is called once and its result is kept
      \E e \in {enrich_stock_data(symbol, ld, validated_data, outcome)} :
      LET channel == detect_channel(e.data, now)
          \* the largest previous close any of the three sources holds
          \* once the call has returned
          vprev == Get(validated_data, "prev_close", 0)
          cprev == Get(e.prev_closes, symbol, 0)
      IN  /\ prev_closes' = e.prev_closes
          /\ no_data_symbols' = e.no_data_symbols
          /\ prev_close_cache_time' = e.prev_close_cache_time
          /\ day_highs' = e.day_highs
          /\ price_history' = e.price_history
          /\ failed_categorizations' =
                 IF channel = "none"
                 THEN Put(failed_categorizations, symbol, now)
                 ELSE failed_categorizations
          /\ channels' =
                 IF channel # "none"
                    /\ \A i \in 1..Len(channels[channel]) :
                           channels[channel][i] # symbol
                 THEN [channels EXCEPT ![channel] = Append(@, symbol)]
                 ELSE channels
          /\ IF ShouldQueue(channel, symbol)
             THEN PushEffect("channel", [channel |-> channel, symbol |-> symbol])
             ELSE UNCHANGED deliveryVars
          /\ lastCat' = [symbol |-> symbol, evaluated |-> TRUE,
                         channel |-> channel,
                         matching |-> MatchingRules(e.data, now),
                         pushes |-> pushed'["channel"] - pushed["channel"],
                         raised |-> e.raised,
                         known_prev |-> IF vprev > cprev THEN vprev ELSE cprev,
                         gap_pct |-> e.data.gap_pct,
                         price |-> e.data.price,
                         is_hod |-> e.data.is_hod,
                         hod_price |-> e.data.hod_price,
                         has_breaking_news |-> e.data.has_breaking_news,
                         news_age_sec |-> e.data.news_age_sec]
          /\ eval_log' =
                 LET old == Get(eval_log, symbol, NoEval)
                 IN  Put(eval_log, symbol,
                         [count |-> old.count + 1, t |-> now,
                          channel |-> channel,
                          high |-> Max(old.high, e.data.price),
                          prior_high |-> old.high])

\* a quote handler that assigns a fresh entry instead of updating the old one
HandleQuoteFreshEntry(symbol, bid, ask, bidsz, asksz, validated_data, outcome) ==
    /\ updates < MaxUpdates
    /\ updates' = updates + 1
    /\ LET entry == [NewEntry EXCEPT
                         !.symbol = symbol, !.bid = bid, !.ask = ask,
                         !.bid_size = bidsz, !.ask_size = asksz,
                         !.last_update = now]
       IN  /\ live_data' = Put(live_data, symbol, entry)
           /\ categorize_symbol(symbol, entry, validated_data, outcome)
    /\ UNCHANGED <<now, nonTier3Vars>>

\* _handle_quote(data)
HandleQuote(symbol, bid, ask, bidsz, asksz, validated_data, outcome) ==
    /\ updates < MaxUpdates
    /\ updates' = updates + 1
    /\ LET entry == [Get(live_data, symbol, NewEntry) EXCEPT
                         !.symbol = symbol, !.bid = bid, !.ask = ask,
                         !.bid_size = bidsz, !.ask_size = asksz,
                         !.last_update = now]
       IN  /\ live_data' = Put(live_data, symbol, entry)
           /\ categorize_symbol(symbol, entry, validated_data, outcome)
    /\ UNCHANGED <<now, nonTier3Vars>>

\* _handle_trade(data)
HandleTrade(symbol, price, cvol, validated_data, outcome) ==
    /\ updates < MaxUpdates
    /\ updates' = updates + 1
    /\ LET first == IF symbol \in DOMAIN live_data THEN live_data[symbol]
                    ELSE [NewEntry EXCEPT
                              !.volume = Get(validated_data, "volume", 0)]
           entry == [first EXCEPT !.price = price, !.volume = cvol,
                                  !.timestamp = now]
       IN  /\ live_data' = Put(live_data, symbol, entry)
           /\ categorize_symbol(symbol, entry, validated_data, outcome)
    /\ UNCHANGED <<now, nonTier3Vars>>

\* a drain that takes the newest record first
ProcessSignalQueueTier3Newest ==
    /\ signal_queue["channel"] # << >>
    /\ LET q == signal_queue["channel"]
           rec == q[Len(q)]
           has_signal == rec.tag.channel \in {"pregap", "hod", "runup", "rvsl"}
       IN  /\ signal_queue' = [signal_queue EXCEPT
                                   !["channel"] = SubSeq(q, 1, Len(q) - 1)]
           /\ removed' = [removed EXCEPT !["channel"] = @ \cup {rec.seq}]
           /\ dispatched' = IF has_signal
                            THEN [dispatched EXCEPT !["channel"] = Append(@, rec)]
                            ELSE dispatched
           /\ emitted' = IF has_signal
                         THEN emitted \cup {<<"channel", "gui">>}
                         ELSE emitted
    /\ UNCHANGED <<pushed, now, updates, tier3Vars, nonTier3Vars>>

\* TradierCategorizer._process_signal_queue: one iteration of the loop
ProcessSignalQueueTier3 ==
    /\ signal_queue["channel"] # << >>
    /\ LET rec == QueueHead(signal_queue["channel"])
           has_signal == rec.tag.channel \in {"pregap", "hod", "runup", "rvsl"}
       IN  /\ signal_queue' = [signal_queue EXCEPT
                                   !["channel"] = QueueRest(@)]
           /\ removed' = [removed EXCEPT !["channel"] = @ \cup {rec.seq}]
           /\ dispatched' = IF has_signal
                            THEN [dispatched EXCEPT !["channel"] = Append(@, rec)]
                            ELSE dispatched
           /\ emitted' = IF has_signal
                         THEN emitted \cup {<<"channel", "gui">>}
                         ELSE emitted
    /\ UNCHANGED <<pushed, now, updates, tier3Vars, nonTier3Vars>>

\* the other drains: get_nowait() then emit
ProcessSignalQueue(c) ==
    /\ signal_queue[c] # << >>
    /\ LET rec == QueueHead(signal_queue[c])
       IN  /\ signal_queue' = [signal_queue EXCEPT ![c] = QueueRest(@)]
           /\ removed' = [removed EXCEPT ![c] = @ \cup {rec.seq}]
           /\ dispatched' = [dispatched EXCEPT ![c] = Append(@, rec)]
           /\ emitted' = emitted \cup {<<c, "gui">>}
    /\ UNCHANGED <<pushed, now, updates, tier3Vars, nonTier3Vars>>

\* the wall clock advances
Tick ==
    /\ \E step \in TimeSteps :
          /\ now + step <= MaxTime
          /\ now' = now + step
    /\ UNCHANGED <<updates, deliveryVars, tier3Vars, nonTier3Vars>>

---------------------------------------------------------------------------
(* config/keywords.py and scanners/news_aggregator.py: NewsAggregator *)
breaking_max_age == 1800        \* age_hours <= 0.5
general_max_age == 172800       \* age_hours <= 48

NewsIds == {"n1", "X"}
Providers == {"alpaca", "polygon", "finnhub"}
NewsSymbols == {"X", "SHOP.TO"}
\* a headline is known by the two keyword scans made of it
Headlines ==
    { [matches |-> TRUE, exclude |-> FALSE],
      [matches |-> TRUE, exclude |-> TRUE],
      [matches |-> FALSE, exclude |-> FALSE] }
\* age of the item when it is processed; -1 stands for a timestamp
\* datetime.fromisoformat rejects
NewsAges == {600, 7200, 200000, -1}

NoLog == [calls |-> 0, providers |-> {}, events |-> 0, dropped_new_pair |-> FALSE]

matches_news_keywords(headline) == headline.matches
should_exclude(headline) == headline.exclude

\* a categorisation whose breaking window excludes its upper end
categorize_news_by_age_open(headline, age) ==
    IF ~ matches_news_keywords(headline) THEN "ignore"
    ELSE IF should_exclude(headline) THEN "ignore"
    ELSE IF age < breaking_max_age THEN "breaking"
    ELSE IF breaking_max_age < age /\ age <= general_max_age THEN "general"
    ELSE "ignore"

\* categorize_news_by_age(headline, age_hours), the age in seconds
categorize_news_by_age(headline, age) ==
    IF ~ matches_news_keywords(headline) THEN "ignore"
    ELSE IF should_exclude(headline) THEN "ignore"
    ELSE IF age <= breaking_max_age THEN "breaking"
    ELSE IF breaking_max_age < age /\ age <= general_max_age THEN "general"
    ELSE "ignore"

IsCanadian(symbol) == symbol \in {"SHOP.TO"}

\* a deduplication that tells providers apart
SeenKeyPerProvider(item, provider) == <<provider, item.news_id>>

\* the key looked up in and added to seen_news_ids
SeenKey(item, provider) == item.news_id

\* the timestamp string of an item carries a UTC offset: news.created_at and
\* published_utc do, datetime.fromtimestamp(...).isoformat() of _fetch_finnhub
\* does not
TimestampAware(provider) == provider # "finnhub"

\* _process_news_item(item, provider)
process_news_item(item, provider) ==
    /\ LET news_id == item.news_id
           key == SeenKey(item, provider)
           fresh == key \notin seen_news_ids
           parsed == item.age # -1
           category == IF fresh /\ ~ IsCanadian(item.symbol)
                          /\ ~ should_exclude(item.headline) /\ parsed
                       THEN categorize_news_by_age(item.headline, item.age)
                       ELSE "ignore"
           stored == [symbol |-> item.symbol, timestamp |-> now - item.age,
                      aware |-> TimestampAware(provider)]
       IN  /\ seen_news_ids' = seen_news_ids \cup {key}
           /\ bkgnews_json' = IF category = "breaking"
                              THEN Put(bkgnews_json, news_id, stored)
                              ELSE bkgnews_json
           /\ news_json' = IF category = "general"
                           THEN Put(news_json, news_id, stored)
                           ELSE news_json
           /\ IF category \in {"breaking", "general"}
              THEN PushEffect("news", [channel |-> category, symbol |-> news_id])
              ELSE UNCHANGED deliveryVars
           /\ news_log' = [news_log EXCEPT ![news_id] =
                  [calls |-> @.calls + 1,
                   providers |-> @.providers \cup {provider},
                   events |-> @.events +
                       (IF category \in {"breaking", "general"} THEN 1 ELSE 0),
                   dropped_new_pair |->
                       @.dropped_new_pair
                       \/ (~ fresh /\ provider \notin @.providers)]]

\* _process_news_item called on its own (primary stream, or one item of a
\* secondary fetch)
ProcessNewsItem(item, provider) ==
    /\ updates < MaxNewsItems
    /\ updates' = updates + 1
    /\ process_news_item(item, provider)
    /\ UNCHANGED <<now, nonNewsVars>>

\* the secondary providers "in priority order"
secondary_providers ==
    <<"polygon", "marketaux", "fmp", "newsapi", "alphavantage", "finnhub">>
\* _fetch_marketaux, _fetch_fmp, _fetch_newsapi and _fetch_alphavantage are
\* placeholders that return []
ImplementedProviders == {"polygon", "finnhub"}
poll_interval == 180
PolledItems ==
    [news_id : NewsIds, symbol : {"X"},
     headline : {[matches |-> TRUE, exclude |-> FALSE]}, age : {600, 7200}]
\* _fetch_from_provider(provider): [] on a missing key, a non-200 response,
\* an exception or an empty result; the lists of the runs analysed hold at
\* most one item
FetchResults(provider) ==
    IF provider \in ImplementedProviders
    THEN {<< >>} \cup {<<item>> : item \in PolledItems}
    ELSE {<< >>}

\* _rotate_provider
rotate_provider(index) == (index + 1) % Len(secondary_providers)

\* one iteration of the while loop of _run_secondary, its wait included
SecondaryCycle(news_items) ==
    /\ ~ stop_event["news"]
    /\ Len(poll_log) < MaxPolls
    /\ LET provider == secondary_providers[current_provider_index + 1]
       IN  /\ news_items \in FetchResults(provider)
           /\ poll_log' = Append(poll_log,
                  [provider |-> provider, t |-> now,
                   failed |-> news_items = << >>])
           /\ IF news_items # << >>
              THEN /\ process_news_item(news_items[1], provider)
                   /\ UNCHANGED current_provider_index
              ELSE /\ current_provider_index' =
                          rotate_provider(current_provider_index)
                   /\ UNCHANGED <<newsVars, deliveryVars>>
    /\ now' = now + poll_interval
    /\ UNCHANGED <<updates, nonNewsPollVars>>

(* _cleanup_old_news *)
promote_age == 7200             \* age_hours > 2
delete_age == 259200            \* age_hours > 72
cleanup_interval == 1800        \* self.stop_event.wait(1800)
\* of the runs of _run_cleanup every 72nd is looked at
news_step == 72 * cleanup_interval

\* `now - timestamp` raises TypeError for an offset-naive timestamp: now is
\* datetime.now(timezone.utc); the except branch logs and goes to the next item
CleanupRaises(item) == ~ item.aware
CleanupAge(item, t) == t - item.timestamp

Restrict(dict, keys) == [k \in keys |-> dict[k]]

\* the two dicts _cleanup_old_news saves, from the two it loaded
cleanup_old_news(bkgnews, news, t) ==
    LET Aged(dict, k, limit) ==
            /\ ~ CleanupRaises(dict[k])
            /\ CleanupAge(dict[k], t) > limit
        expired_breaking == {k \in DOMAIN bkgnews : Aged(bkgnews, k, promote_age)}
        moved == {k \in expired_breaking : ~ Aged(bkgnews, k, delete_age)}
        news1 == [k \in (DOMAIN news) \cup moved |->
                     IF k \in moved THEN bkgnews[k] ELSE news[k]]
        expired_general == {k \in DOMAIN news1 : Aged(news1, k, delete_age)}
    IN  [bkgnews |-> Restrict(bkgnews, (DOMAIN bkgnews) \ expired_breaking),
         news |-> Restrict(news1, (DOMAIN news1) \ expired_general)]

\* one iteration of _run_cleanup while no other thread writes the stores
CleanupOldNews ==
    /\ ~ stop_event["news"]
    /\ cleanup_runs < MaxCleanups
    /\ cleanup_runs' = cleanup_runs + 1
    /\ LET saved == cleanup_old_news(bkgnews_json, news_json, now)
       IN  /\ bkgnews_json' = saved.bkgnews
           /\ news_json' = saved.news
    /\ UNCHANGED <<now, updates, seen_news_ids, news_log, deliveryVars,
                   nonNewsCleanupVars>>

\* the time between two cleanup runs looked at
NewsTick ==
    /\ now + news_step <= MaxNewsTime
    /\ now' = now + news_step
    /\ UNCHANGED <<updates, deliveryVars, tier3Vars, nonTier3Vars>>

(* The news threads: primary_thread runs _handle_alpaca_news, the secondary *)
(* thread _run_secondary, cleanup_thread _run_cleanup; no lock is taken.    *)
NewsThreads == {"primary", "secondary"}
ThreadProviders(thread) ==
    IF thread = "primary" THEN {"alpaca"} ELSE {"polygon"}
NoItem == [news_id |-> "none", symbol |-> "none",
           headline |-> [matches |-> FALSE, exclude |-> FALSE], age |-> 0]
NoCall == [pc |-> "idle", item |-> NoItem, provider |-> "none",
           category |-> "none", local |-> EmptyDict]
NoCleanup == [pc |-> "idle", bkgnews |-> EmptyDict, news |-> EmptyDict, t |-> 0]

\* the record _process_news_item stores for the item of a call
StoredItem(call, t) ==
    [symbol |-> call.item.symbol, timestamp |-> t - call.item.age,
     aware |-> TimestampAware(call.provider)]

\* "if news_id in self.seen_news_ids: return"
CheckSeen(thread, item, provider) ==
    /\ news_calls[thread].pc = "idle"
    /\ updates < MaxNewsItems
    /\ updates' = updates + 1
    /\ provider \in ThreadProviders(thread)
    /\ LET fresh == SeenKey(item, provider) \notin seen_news_ids
       IN  /\ news_calls' = [news_calls EXCEPT ![thread] =
                  IF fresh
                  THEN [NoCall EXCEPT !.pc = "passed", !.item = item,
                                      !.provider = provider]
                  ELSE NoCall]
           /\ news_log' = [news_log EXCEPT ![item.news_id] =
                  [@ EXCEPT !.calls = @ + 1,
                            !.providers = @ \cup {provider},
                            !.dropped_new_pair =
                                @ \/ (~ fresh /\ provider \notin
                                          news_log[item.news_id].providers)]]
    /\ UNCHANGED <<now, seen_news_ids, bkgnews_json, news_json, cleanup_call,
                   news_accepted, deliveryVars, nonNewsThreadVars>>

\* "self.seen_news_ids.add(news_id)", then the filters and the category,
\* which read nothing another thread writes
AddSeen(thread) ==
    /\ news_calls[thread].pc = "passed"
    /\ LET call == news_calls[thread]
           item == call.item
           parsed == item.age # -1
           category == IF ~ IsCanadian(item.symbol)
                          /\ ~ should_exclude(item.headline) /\ parsed
                       THEN categorize_news_by_age(item.headline, item.age)
                       ELSE "ignore"
       IN  /\ seen_news_ids' = seen_news_ids \cup {SeenKey(item, call.provider)}
           /\ news_calls' = [news_calls EXCEPT ![thread] =
                  IF category \in {"breaking", "general"}
                  THEN [call EXCEPT !.pc = "categorized", !.category = category]
                  ELSE NoCall]
    /\ UNCHANGED <<now, updates, bkgnews_json, news_json, news_log,
                   cleanup_call, news_accepted, deliveryVars,
                   nonNewsThreadVars>>

\* "bkgnews = self.fm.load_bkgnews()" or "news = self.fm.load_news()"
LoadStore(thread) ==
    /\ news_calls[thread].pc = "categorized"
    /\ news_calls' = [news_calls EXCEPT ![thread] =
           [@ EXCEPT !.pc = "loaded",
                     !.local = IF news_calls[thread].category = "breaking"
                               THEN bkgnews_json ELSE news_json]]
    /\ UNCHANGED <<now, updates, newsVars, cleanup_call, news_accepted,
                   deliveryVars, nonNewsThreadVars>>

\* "bkgnews[news_id] = {...}; self.fm.save_bkgnews(bkgnews)", or the same
\* on news.json
SaveStore(thread) ==
    /\ news_calls[thread].pc = "loaded"
    /\ LET call == news_calls[thread]
           written == Put(call.local, call.item.news_id, StoredItem(call, now))
       IN  /\ IF call.category = "breaking"
              THEN bkgnews_json' = written /\ UNCHANGED news_json
              ELSE news_json' = written /\ UNCHANGED bkgnews_json
           /\ news_calls' = [news_calls EXCEPT ![thread] =
                  [call EXCEPT !.pc = "saved", !.local = EmptyDict]]
    /\ UNCHANGED <<now, updates, seen_news_ids, news_log, cleanup_call,
                   news_accepted, deliveryVars, nonNewsThreadVars>>

\* "self.signal_queue.put(gui_data)" and the return
PutNewsSignal(thread) ==
    /\ news_calls[thread].pc = "saved"
    /\ LET call == news_calls[thread]
       IN  /\ PushEffect("news", [channel |-> call.category,
                                  symbol |-> call.item.news_id])
           /\ news_log' = [news_log EXCEPT ![call.item.news_id] =
                  [@ EXCEPT !.events = @ + 1]]
           /\ news_accepted' = news_accepted \cup
                  {[news_id |-> call.item.news_id, category |-> call.category,
                    timestamp |-> now - call.item.age]}
           /\ news_calls' = [news_calls EXCEPT ![thread] = NoCall]
    /\ UNCHANGED <<now, updates, seen_news_ids, bkgnews_json, news_json,
                   cleanup_call, nonNewsThreadVars>>

\* _cleanup_old_news on cleanup_thread: the two loads, then the two saves
CleanupLoadBkgnews ==
    /\ ~ stop_event["news"]
    /\ cleanup_call.pc = "idle"
    /\ cleanup_runs < MaxCleanups
    /\ cleanup_runs' = cleanup_runs + 1
    /\ cleanup_call' = [NoCleanup EXCEPT !.pc = "loaded_bkgnews",
                                         !.bkgnews = bkgnews_json]
    /\ UNCHANGED <<now, updates, newsVars, news_calls, news_accepted,
                   deliveryVars, nonNewsCleanupThreadVars>>

CleanupLoadNews ==
    /\ cleanup_call.pc = "loaded_bkgnews"
    /\ cleanup_call' =
           LET saved == cleanup_old_news(cleanup_call.bkgnews, news_json, now)
           IN  [pc |-> "computed", bkgnews |-> saved.bkgnews,
                news |-> saved.news, t |-> now]
    /\ UNCHANGED <<now, updates, newsVars, news_calls, news_accepted,
                   deliveryVars, nonNewsThreadVars>>

CleanupSaveBkgnews ==
    /\ cleanup_call.pc = "computed"
    /\ bkgnews_json' = cleanup_call.bkgnews
    /\ cleanup_call' = [cleanup_call EXCEPT !.pc = "saved_bkgnews",
                                            !.bkgnews = EmptyDict]
    /\ UNCHANGED <<now, updates, seen_news_ids, news_json, news_log,
                   news_calls, news_accepted, deliveryVars,
                   nonNewsThreadVars>>

CleanupSaveNews ==
    /\ cleanup_call.pc = "saved_bkgnews"
    /\ news_json' = cleanup_call.news
    /\ cleanup_call' = NoCleanup
    /\ UNCHANGED <<now, updates, seen_news_ids, bkgnews_json, news_log,
                   news_calls, news_accepted, deliveryVars,
                   nonNewsThreadVars>>

---------------------------------------------------------------------------
(* scanners/tier2_halts.py: NasdaqHaltScanner *)
HaltSymbols == {"Y"}
today_start == 0                \* midnight, exchange-local
\* a parsed HaltDate/HaltTime or ResumptionDate/ResumptionTime: seconds of the
\* day (negative: an earlier day), 0 when _parse_nasdaq_datetime returns None
HaltTimes == {0, -3600, 34000, 34600}
ResumeTimes == {0, 34000, 34300}
FeedEntries ==
    [symbol : HaltSymbols, halt_time : HaltTimes, resume_time : ResumeTimes]
Feeds ==
    UNION {[1..n -> FeedEntries] : n \in 0..MaxFeedLen}

\* "Determine status": is_resumed of one feed entry
IsResumed(entry) ==
    IF entry.resume_time # 0 /\ entry.halt_time # 0
    THEN entry.resume_time > entry.halt_time
    ELSE entry.resume_time # 0

\* "Skip halts not from today"
SkippedAsOld(entry) ==
    entry.halt_time # 0 /\ entry.halt_time < today_start

\* the body of the loop over the feed items, for one entry
ProcessHaltEntry(st, entry) ==
    LET symbol == entry.symbol
        known == symbol \in DOMAIN st.halts
    IN  IF SkippedAsOld(entry) THEN st
        ELSE IF ~ IsResumed(entry) THEN
            IF ~ known \/ st.halts[symbol].status = "Resumed"
            THEN [st EXCEPT !.halts = Put(@, symbol,
                      [status |-> "Halted", halt_time |-> entry.halt_time,
                       resume_time |-> 0])]
            ELSE st
        ELSE IF known THEN
            IF st.halts[symbol].status = "Halted"
            THEN [halts |-> Put(st.halts, symbol,
                      [st.halts[symbol] EXCEPT !.status = "Resumed",
                                               !.resume_time = now]),
                  resumed_by |-> st.resumed_by \cup {entry}]
            ELSE st
        ELSE [st EXCEPT !.halts = Put(@, symbol,
                  [status |-> "Resumed", halt_time |-> entry.halt_time,
                   resume_time |-> now])]

RECURSIVE ProcessHaltFeed(_, _)
ProcessHaltFeed(st, feed) ==
    IF feed = << >> THEN st
    ELSE ProcessHaltFeed(ProcessHaltEntry(st, Head(feed)), Tail(feed))

\* NasdaqHaltScanner._fetch_halts with the feed answering `feed`
ScannerFetchHalts(feed) ==
    /\ updates < MaxFetches
    /\ updates' = updates + 1
    /\ LET st == ProcessHaltFeed([halts |-> active_halts,
                                  resumed_by |-> resumed_by], feed)
       IN  /\ active_halts' = st.halts
           /\ resumed_by' = st.resumed_by
           /\ active_halts_json' = st.halts
    /\ UNCHANGED <<now, deliveryVars, nonScannerVars>>

---------------------------------------------------------------------------
(* scanners/halt_monitor.py: HaltMonitor *)
MonitorSymbols == {"Y"}
PubDates == {34000, 34300, 34600}
table_resume_time == 34900
\* one <item> of the RSS feed: the symbol of its title, whether its title or
\* description reads as a halt, and its pubDate
RssItems == [symbol : MonitorSymbols, is_halted : BOOLEAN, pub_date : PubDates]
\* one row of the HTML table; resume_time 0 is the empty cell
TableRows ==
    [symbol : MonitorSymbols, halt_time : PubDates,
     resume_time : {0, table_resume_time}]
RssFeeds == UNION {[1..n -> RssItems] : n \in 0..MaxFeedLen}
HtmlTables == UNION {[1..n -> TableRows] : n \in 0..MaxFeedLen}

NoCycle ==
    [rss |-> EmptyDict, html |-> EmptyDict, table_resumed |-> {},
     all_halts |-> EmptyDict, raised |-> FALSE]

\* HaltMonitor._fetch_nasdaq_halts: halts[symbol] = {...} item by item
RECURSIVE fetch_nasdaq_halts(_, _)
fetch_nasdaq_halts(halts, items) ==
    IF items = << >> THEN halts
    ELSE LET item == Head(items)
             rec == [status |-> IF item.is_halted THEN "HALTED" ELSE "RESUMED",
                     halt_time |-> item.pub_date,
                     resume_time |-> IF item.is_halted THEN 0 ELSE item.pub_date,
                     source |-> "rss"]
         IN  fetch_nasdaq_halts(Put(halts, item.symbol, rec), Tail(items))

\* HaltMonitor._fetch_nasdaq_html_table: the loop over the rows
RECURSIVE fetch_nasdaq_html_table(_, _)
fetch_nasdaq_html_table(halts, rows) ==
    IF rows = << >> THEN halts
    ELSE LET row == Head(rows)
             rec == [status |-> "HALTED", halt_time |-> row.halt_time,
                     resume_time |-> 0, source |-> "html"]
         IN  IF row.resume_time = 0
             THEN fetch_nasdaq_html_table(Put(halts, row.symbol, rec), Tail(rows))
             ELSE fetch_nasdaq_html_table(halts, Tail(rows))

\* all_halts = {**nasdaq_rss_halts}, then overridden by the table's entries
MergeHalts(rss, html) ==
    [symbol \in DOMAIN rss \cup DOMAIN html |->
        IF symbol \in DOMAIN html THEN html[symbol] ELSE rss[symbol]]

\* the symbols for which the table has a row with a resume time
TableResumed(rows) ==
    {rows[i].symbol : i \in {j \in 1..Len(rows) :
        rows[j].resume_time # 0 /\ rows[j].resume_time > rows[j].halt_time}}

\* HaltMonitor._fetch_halts, one cycle.  _process_halts calls
\* self.fm.write_json, which FileManager does not define: the call raises
\* before any file is written and before signal_queue.put is reached.
MonitorFetchHalts(items, rows) ==
    /\ updates < MaxFetches
    /\ updates' = updates + 1
    /\ LET html == fetch_nasdaq_html_table(EmptyDict, rows)
           rss == fetch_nasdaq_halts(EmptyDict, items)
           all_halts == MergeHalts(rss, html)
       IN  halt_cycle' = [rss |-> rss, html |-> html,
                          table_resumed |-> TableResumed(rows),
                          all_halts |-> all_halts,
                          raised |-> (DOMAIN all_halts # {})]
    /\ UNCHANGED <<now, deliveryVars, nonMonitorVars>>

---------------------------------------------------------------------------
(* scanners/momo_squeeze.py: MomoSqueeze *)
MomoSymbols == {"X"}
MomoPrices == {0, 100}
momo_step == 10
squeeze_history_maxlen == 50
squeeze_min_bars == 26
scan_interval == 5
fired_hold == 15
intensity_emit_min == 400        \* 0.4, in thousandths
\* (atr, std_dev) of the histories at a computed tick, in price units
HistoryStats == {<<0, 0>>, <<1, 0>>, <<3, 2>>, <<3, 4>>, <<6, 0>>}
history_sma == 100
\* direct arguments of _calculate_intensity, in tenths of a price unit
BandUppers == {1000, 1160}
BandLowers == {1000, 1200}
ChannelUppers == {1045}
ChannelLowers == {955, 1045}
AtrValues == {-10, 0, 30}

NewSqueezeState == [status |-> "IDLE", bars_coiling |-> 0, last_fire |-> 0]
NoIntensity ==
    [bb_width |-> 0, kc_width |-> 0, atr |-> 0, intensity |-> 0, called |-> FALSE]


\* _get_adaptive_params: (bb_mult, kc_mult) in tenths, and the length
get_adaptive_params(atr, price) ==
    IF atr * 100 < 2 * price THEN [bb_mult |-> 15, kc_mult |-> 10, length |-> 15]
    ELSE IF atr * 100 > 5 * price
         THEN [bb_mult |-> 25, kc_mult |-> 20, length |-> 25]
         ELSE [bb_mult |-> 20, kc_mult |-> 15, length |-> 20]

\* an intensity without the clamp at zero
calculate_intensity_unclamped(bb_upper, bb_lower, kc_upper, kc_lower, atr) ==
    IF atr <= 0 THEN 0
    ELSE IF kc_upper - kc_lower <= 0 THEN 0
    ELSE (((kc_upper - kc_lower) - (bb_upper - bb_lower)) * 1000) \div atr

\* _calculate_intensity, in thousandths
calculate_intensity(bb_upper, bb_lower, kc_upper, kc_lower, atr) ==
    IF atr <= 0 THEN 0
    ELSE IF kc_upper - kc_lower <= 0 THEN 0
    ELSE Max(0, (((kc_upper - kc_lower) - (bb_upper - bb_lower)) * 1000) \div atr)

\* a status rule that fires whenever the squeeze is off
next_squeeze_state_fire_always(st, squeeze_on, t) ==
    IF squeeze_on
    THEN [st EXCEPT !.status = "COILING", !.bars_coiling = @ + 1]
    ELSE [st EXCEPT !.status = "FIRED", !.last_fire = t, !.bars_coiling = 0]

\* a status rule that keeps the counter when the squeeze fires
next_squeeze_state_keep_bars(st, squeeze_on, t) ==
    IF squeeze_on
    THEN [st EXCEPT !.status = "COILING", !.bars_coiling = @ + 1]
    ELSE IF st.status = "COILING"
         THEN [st EXCEPT !.status = "FIRED", !.last_fire = t]
         ELSE IF st.status = "FIRED"
              THEN IF t - st.last_fire > fired_hold
                   THEN [st EXCEPT !.status = "IDLE"]
                   ELSE st
              ELSE [st EXCEPT !.status = "IDLE"]

\* "Update squeeze state" of update_symbol_squeeze
next_squeeze_state(st, squeeze_on, t) ==
    IF squeeze_on
    THEN [st EXCEPT !.status = "COILING", !.bars_coiling = @ + 1]
    ELSE IF st.status = "COILING"
         THEN [st EXCEPT !.status = "FIRED", !.last_fire = t, !.bars_coiling = 0]
         ELSE IF st.status = "FIRED"
              THEN IF t - st.last_fire > fired_hold
                   THEN [st EXCEPT !.status = "IDLE"]
                   ELSE st
              ELSE [st EXCEPT !.status = "IDLE"]

\* round(intensity, 2), in hundredths
Round2(intensity) == (intensity + 5) \div 10

\* MomoSqueeze.update_symbol_squeeze(symbol, livedata); the histories are kept
\* by their length, and the ATR and the standard deviation of the closes are
\* what the histories give at this tick
update_symbol_squeeze(symbol, price, atr, std_dev) ==
    /\ squeeze_samples[symbol] < MaxSqueezeSamples
    /\ LET samples == IF squeeze_samples[symbol] < squeeze_history_maxlen
                      THEN squeeze_samples[symbol] + 1
                      ELSE squeeze_history_maxlen
           params == get_adaptive_params(atr, price)
           bb_upper == 10 * history_sma + params.bb_mult * std_dev
           bb_lower == 10 * history_sma - params.bb_mult * std_dev
           kc_upper == 10 * history_sma + params.kc_mult * atr
           kc_lower == 10 * history_sma - params.kc_mult * atr
           squeeze_on == bb_upper < kc_upper /\ bb_lower > kc_lower
           intensity ==
               calculate_intensity(bb_upper, bb_lower, kc_upper, kc_lower, 10 * atr)
           st == next_squeeze_state(squeeze_state[symbol], squeeze_on, now)
       IN  IF price <= 0
           THEN UNCHANGED <<squeezeVars, deliveryVars>>
           ELSE IF samples < squeeze_min_bars
                     \/ now - squeeze_last_calc[symbol] < scan_interval
           THEN /\ squeeze_samples' = [squeeze_samples EXCEPT ![symbol] = samples]
                /\ UNCHANGED <<squeeze_state, squeeze_on_run, squeeze_last_calc,
                               last_intensity, deliveryVars>>
           ELSE /\ squeeze_samples' = [squeeze_samples EXCEPT ![symbol] = samples]
                /\ squeeze_last_calc' = [squeeze_last_calc EXCEPT ![symbol] = now]
                /\ squeeze_state' = [squeeze_state EXCEPT ![symbol] = st]
                /\ squeeze_on_run' =
                       [squeeze_on_run EXCEPT
                           ![symbol] = IF squeeze_on THEN @ + 1 ELSE 0]
                /\ last_intensity' =
                       [bb_width |-> bb_upper - bb_lower,
                        kc_width |-> kc_upper - kc_lower,
                        atr |-> 10 * atr, intensity |-> intensity,
                        called |-> TRUE]
                /\ IF (st.status = "COILING" /\ intensity >= intensity_emit_min)
                      \/ st.status = "FIRED"
                   THEN PushEffect("squeeze",
                            [symbol |-> symbol, status |-> st.status,
                             bars_coiling |-> st.bars_coiling,
                             intensity |-> Round2(intensity)])
                   ELSE UNCHANGED deliveryVars

\* update_symbol_squeeze called on its own
UpdateSymbolSqueeze(symbol, price, atr, std_dev) ==
    /\ update_symbol_squeeze(symbol, price, atr, std_dev)
    /\ UNCHANGED <<now, updates, nonSqueezeVars>>

\* MomoSqueeze._calculate_intensity called with arbitrary band values
CalculateIntensity(bb_upper, bb_lower, kc_upper, kc_lower, atr) ==
    /\ last_intensity' =
           [bb_width |-> bb_upper - bb_lower, kc_width |-> kc_upper - kc_lower,
            atr |-> atr,
            intensity |->
                calculate_intensity(bb_upper, bb_lower, kc_upper, kc_lower, atr),
            called |-> TRUE]
    /\ UNCHANGED <<squeeze_samples, squeeze_state, squeeze_on_run, squeeze_last_calc>>
    /\ UNCHANGED <<now, updates, deliveryVars, nonSqueezeVars>>

\* the wall clock of a Momo run advances by one scan interval
MomoTick ==
    /\ now + momo_step <= MaxMomoTime
    /\ now' = now + momo_step
    /\ UNCHANGED <<updates, deliveryVars, tier3Vars, nonTier3Vars>>

---------------------------------------------------------------------------
(* scanners/momo_trend.py: MomoTrend *)
trend_history_maxlen == 100
trend_min_bars == 20
trend_strength_min == 15        \* 1.5, in tenths
TrendStrengths == {0, 20, -20}
Confidences == {"High", "Med", "Low"}

\* MomoTrend.update_symbol_trend(symbol, livedata); trend_strength and
\* confidence are what the Kalman filter gives at this tick.  The record is
\* emitted by trendsignal.emit on the thread that runs the scan.
update_symbol_trend(symbol, price, trend_strength, confidence) ==
    /\ trend_samples[symbol] < MaxTrendSamples
    /\ LET samples == IF trend_samples[symbol] < trend_history_maxlen
                      THEN trend_samples[symbol] + 1
                      ELSE trend_history_maxlen
       IN  IF price <= 0
           THEN UNCHANGED <<trendVars, emitted>>
           ELSE IF samples < trend_min_bars
                     \/ now - trend_last_calc[symbol] < scan_interval
           THEN /\ trend_samples' = [trend_samples EXCEPT ![symbol] = samples]
                /\ UNCHANGED <<trend_last_calc, emitted>>
           ELSE /\ trend_samples' = [trend_samples EXCEPT ![symbol] = samples]
                /\ trend_last_calc' = [trend_last_calc EXCEPT ![symbol] = now]
                /\ emitted' =
                       IF Abs(trend_strength) >= trend_strength_min
                          /\ confidence \in {"High", "Med"}
                       THEN emitted \cup {<<"trend", "worker">>}
                       ELSE emitted
    /\ UNCHANGED <<signal_queue, pushed, dispatched, removed>>

\* update_symbol_trend called on its own
UpdateSymbolTrend(symbol, price, trend_strength, confidence) ==
    /\ update_symbol_trend(symbol, price, trend_strength, confidence)
    /\ UNCHANGED <<now, updates, nonTrendVars>>

---------------------------------------------------------------------------
(* scanners/momo_vector.py: MomoVector *)
Timeframes == {"1min", "5min", "15min"}
vector_step == 60
vector_min_bars == 5
v_score_min == 40               \* 4.0, in tenths
vol_quality_min == 12           \* 1.2, in tenths
VectorPrices == {0, 5}
VectorVolumes == {0, 2}
VectorScores == {0, 40, -40}
VolQualities == {10, 12}

\* seconds of a bar and deque(maxlen=...) of a timeframe
BarSeconds(tf) == IF tf = "1min" THEN 60 ELSE IF tf = "5min" THEN 300 ELSE 900
BarsMaxlen(tf) == IF tf = "1min" THEN 20 ELSE IF tf = "5min" THEN 50 ELSE 100

NoVectorLog == [collected |-> 0, computed |-> 0, emitted |-> 0]

\* MomoVector.update_symbol_vector(symbol, livedata); v_score and vol_quality
\* are what the histories give at this tick.  The three timeframes add the
\* same price and volume to their VWAP sums on every call, so one pair of
\* sums stands for the three.  The record is emitted by vectorsignal.emit on
\* the thread that runs the scan.
update_symbol_vector(symbol, price, volume, v_score, vol_quality) ==
    /\ vector_log[symbol].collected < MaxVectorCalls
    /\ LET closes(tf) == now - vector_bar_time[symbol][tf] >= BarSeconds(tf)
           bars == [tf \in Timeframes |->
                       IF closes(tf)
                       THEN IF vector_bars[symbol][tf] < BarsMaxlen(tf)
                            THEN vector_bars[symbol][tf] + 1
                            ELSE BarsMaxlen(tf)
                       ELSE vector_bars[symbol][tf]]
           bar_time == [tf \in Timeframes |->
                           IF closes(tf) THEN now
                           ELSE vector_bar_time[symbol][tf]]
           vwap == [sum_pv |-> vector_vwap[symbol].sum_pv + price * volume,
                    sum_v |-> vector_vwap[symbol].sum_v + volume]
           computes == bars["1min"] >= vector_min_bars
                       /\ now - vector_last_calc[symbol] >= scan_interval
           emits == computes /\ Abs(v_score) >= v_score_min
                             /\ vol_quality >= vol_quality_min
       IN  IF price <= 0
           THEN UNCHANGED <<vectorVars, emitted>>
           ELSE /\ vector_bars' = [vector_bars EXCEPT ![symbol] = bars]
                /\ vector_bar_time' = [vector_bar_time EXCEPT ![symbol] = bar_time]
                /\ vector_vwap' = [vector_vwap EXCEPT ![symbol] = vwap]
                /\ vector_last_calc' =
                       IF computes
                       THEN [vector_last_calc EXCEPT ![symbol] = now]
                       ELSE vector_last_calc
                /\ vector_log' = [vector_log EXCEPT ![symbol] =
                       [collected |-> @.collected + 1,
                        computed |-> @.computed + (IF computes THEN 1 ELSE 0),
                        emitted |-> @.emitted + (IF emits THEN 1 ELSE 0)]]
                /\ emitted' = IF emits
                              THEN emitted \cup {<<"vector", "worker">>}
                              ELSE emitted
    /\ UNCHANGED <<signal_queue, pushed, dispatched, removed>>

\* update_symbol_vector called on its own
UpdateSymbolVector(symbol, price, volume, v_score, vol_quality) ==
    /\ update_symbol_vector(symbol, price, volume, v_score, vol_quality)
    /\ UNCHANGED <<now, updates, nonVectorVars>>

---------------------------------------------------------------------------
(* The scans of the Momo engines: scan_squeeze, scan_trend, scan_vector    *)
Engines == {"squeeze", "trend", "vector"}
NoMomoScan == [scans |-> 0, present |-> {}, processed |-> {}]

\* the attributes of the TradierCategorizer object the engines are given
Tier3Object == [live_data |-> live_data, channels |-> channels]
\* getattr(object, name, default)
getattr(object, name, default) ==
    IF name \in DOMAIN object THEN object[name] ELSE default
\* "Get all live data from Tier3"
scanned_attribute == "livedata"
ScannedLiveData == getattr(Tier3Object, scanned_attribute, EmptyDict)

\* what a scan leaves in the log: the symbols the cache held and the symbols
\* handed to update_symbol_*
LogScan(engine) ==
    momo_scans' = [momo_scans EXCEPT ![engine] =
                      [scans |-> @.scans + 1,
                       present |-> DOMAIN live_data,
                       processed |-> DOMAIN ScannedLiveData]]

\* the symbol of the loop `for symbol, data in livedata.items()`: the cache
\* of the runs analysed holds at most one symbol
ScannedSymbol == CHOOSE symbol \in DOMAIN ScannedLiveData : TRUE

\* MomoSqueeze.scan_squeeze
ScanSqueeze(atr, std_dev) ==
    /\ momo_scans["squeeze"].scans < MaxMomoScans
    /\ LogScan("squeeze")
    /\ IF ScannedLiveData = EmptyDict
       THEN UNCHANGED <<squeezeVars, deliveryVars>>
       ELSE update_symbol_squeeze(ScannedSymbol,
                                  ScannedLiveData[ScannedSymbol].price,
                                  atr, std_dev)
    /\ UNCHANGED <<now, updates, nonMomoVars, trendVars, vectorVars>>

\* MomoTrend.scan_trend
ScanTrend(trend_strength, confidence) ==
    /\ momo_scans["trend"].scans < MaxMomoScans
    /\ LogScan("trend")
    /\ IF ScannedLiveData = EmptyDict
       THEN UNCHANGED <<trendVars, deliveryVars>>
       ELSE update_symbol_trend(ScannedSymbol,
                                ScannedLiveData[ScannedSymbol].price,
                                trend_strength, confidence)
    /\ UNCHANGED <<now, updates, nonMomoVars, squeezeVars, vectorVars>>

\* MomoVector.scan_vector
ScanVector(v_score, vol_quality) ==
    /\ momo_scans["vector"].scans < MaxMomoScans
    /\ LogScan("vector")
    /\ IF ScannedLiveData = EmptyDict
       THEN UNCHANGED <<vectorVars, deliveryVars>>
       ELSE update_symbol_vector(ScannedSymbol,
                                 ScannedLiveData[ScannedSymbol].price,
                                 ScannedLiveData[ScannedSymbol].volume,
                                 v_score, vol_quality)
    /\ UNCHANGED <<now, updates, nonMomoVars, squeezeVars, trendVars>>

\* a minute passes between two scans
VectorTick ==
    /\ now + vector_step <= MaxVectorTime
    /\ now' = now + vector_step
    /\ UNCHANGED <<updates, deliveryVars, tier3Vars, nonTier3Vars>>

---------------------------------------------------------------------------
(* Tier 3: the streaming connection and its subscriptions                  *)

Components == {"tier1", "tier2", "tier3", "halt", "news", "squeeze"}
\* symbols the candidate files can name; "B.B" is not alphabetic
CandidateSymbols == {"X", "Z", "B.B"}
reconnect_delay == 30
SessionOutcomes == {"ok", "error"}
PrevCloseOutcomes ==
    { [kind |-> "close", close |-> 5], [kind |-> "error", close |-> 0] }

\* "s and s.isalpha() and 0 < len(s) <= 5"
IsValidTradierSymbol(s) == s \in {"X", "Z"}

\* _get_session_id: an exception leaves self.session_id as it was
get_session_id(outcome, fresh) ==
    IF outcome = "ok" THEN fresh ELSE session_id

RECURSIVE fetch_prev_closes_list(_, _, _, _)
\* fetch_prev_closes(list(new_symbols)): one request per symbol
fetch_prev_closes_list(st, symbols, outcome, t) ==
    IF symbols = {} THEN st
    ELSE LET symbol == CHOOSE x \in symbols : TRUE
         IN  fetch_prev_closes_list(fetch_prev_closes(st, symbol, outcome, t),
                                    symbols \ {symbol}, outcome, t)

\* the symbols _update_subscriptions puts into subscribe messages
SubscribeDelta(symbols) ==
    IF symbols \ subscribed_symbols # {} /\ ws # 0 /\ session_id # 0
    THEN {s \in symbols \ subscribed_symbols : IsValidTradierSymbol(s)}
    ELSE {}

\* the head of _run_loop: _get_session_id(), _connect_websocket()
TradierConnect(outcome) ==
    /\ ws = 0
    /\ session_id' = get_session_id(outcome, 1)
    /\ ws' = 1
    /\ ws_sent' = [s \in CandidateSymbols |-> 0]
    /\ ws_cycled' = FALSE
    /\ UNCHANGED <<subscribed_symbols, ws_open, ws_delivered, now, updates,
                   deliveryVars, nonSubsVars>>

\* the thread started by _connect_websocket has opened the socket of self.ws
\* (run_forever: handshake done, _on_open called)
TradierOnOpen ==
    /\ ws # 0
    /\ ws_open # ws
    /\ ws_open' = ws
    /\ UNCHANGED <<ws, session_id, subscribed_symbols, ws_sent, ws_cycled,
                   ws_delivered, now, updates, deliveryVars, nonSubsVars>>

\* self.ws.send(...) raises unless the socket of self.ws is open
SendSucceeds == ws # 0 /\ ws_open = ws

\* one cycle of the while loop of _run_loop; a failing ws.send is logged and
\* the batch is marked subscribed all the same
TradierCycle(all_symbols, outcome) ==
    /\ ws # 0
    /\ ~ stop_event["tier3"]
    /\ updates < MaxUpdates
    /\ updates' = updates + 1
    /\ LET st0 == [prev_closes |-> prev_closes,
                   no_data_symbols |-> no_data_symbols,
                   prev_close_cache_time |-> prev_close_cache_time]
           st1 == fetch_prev_closes_list(st0, all_symbols \ DOMAIN prev_closes,
                                         outcome, now)
           delta == SubscribeDelta(all_symbols)
       IN  /\ prev_closes' = st1.prev_closes
           /\ no_data_symbols' = st1.no_data_symbols
           /\ prev_close_cache_time' = st1.prev_close_cache_time
           /\ ws_sent' = [s \in CandidateSymbols |->
                             IF s \in delta THEN ws_sent[s] + 1 ELSE ws_sent[s]]
           /\ subscribed_symbols' = subscribed_symbols \cup delta
           /\ ws_delivered' =
                  IF SendSucceeds
                  THEN ws_delivered \cup {<<ws, s>> : s \in delta}
                  ELSE ws_delivered
    /\ ws_cycled' = TRUE
    /\ UNCHANGED <<ws, session_id, ws_open, now, deliveryVars>>
    /\ UNCHANGED <<live_data, day_highs, price_history, channels,
                   failed_categorizations, lastCat, eval_log>>
    /\ UNCHANGED nonTier3SubsVars

\* _on_close: sleep, new session id, new connection
TradierOnClose(outcome) ==
    /\ ws # 0
    /\ ~ stop_event["tier3"]
    /\ updates < MaxUpdates
    /\ updates' = updates + 1
    /\ now + reconnect_delay <= MaxTime
    /\ now' = now + reconnect_delay
    /\ session_id' = get_session_id(outcome, ws + 1)
    /\ ws' = ws + 1
    /\ ws_sent' = [s \in CandidateSymbols |-> 0]
    /\ ws_cycled' = FALSE
    /\ UNCHANGED <<subscribed_symbols, ws_open, ws_delivered, deliveryVars,
                   nonSubsVars>>

---------------------------------------------------------------------------
(* Tier 2: AlpacaValidator                                                 *)

LiveSymbols == {"X", "Z"}
\* data/prefilter.json: the symbols of its items, each with this volume_avg
PrefilterFiles == SUBSET LiveSymbols
prefilter_volume_avg == 4000000
\* which of subscribe_quotes / subscribe_trades raises, if any
SubscribeOutcomes == {"ok", "quotes_raise", "trades_raise"}
\* _fetch_missing_data: the latest quote and prevclose, or an exception
MissingOutcomes ==
    { [kind |-> "error", bid |-> 0, ask |-> 0, prev_close |-> 0],
      [kind |-> "data", bid |-> 4, ask |-> 6, prev_close |-> 4] }
AlpacaQuotes == {<<4, 6, 1, 2>>, <<0, 6, 0, 2>>}
AlpacaTrades == {<<5, 100>>}
\* <<price, cvol>> of the Tier 3 trade messages of the live-state analysis
LiveTrades == {<<5, 9000000>>}

NewValidated ==
    [symbol |-> "", bid |-> 0, ask |-> 0, bid_size |-> 0, ask_size |-> 0,
     last_update |-> 0, price |-> 0, volume |-> 0, timestamp |-> 0,
     volume_avg |-> 0, prev_close |-> 0]

\* _fetch_missing_data(symbol) on the entry of the symbol
fetch_missing_data(entry, symbol, missing) ==
    IF missing.kind = "error" THEN entry
    ELSE [entry EXCEPT !.symbol = symbol, !.bid = missing.bid,
                       !.ask = missing.ask, !.bid_size = 1, !.ask_size = 1,
                       !.prev_close = IF missing.prev_close > 0
                                      THEN missing.prev_close ELSE @]

\* _init_websocket / _update_subscriptions on the symbols still to subscribe
Subscribe(new_symbols, vd, sub, missing) ==
    /\ quotes_sent' = [s \in LiveSymbols |->
                          IF s \in new_symbols /\ sub # "quotes_raise"
                          THEN quotes_sent[s] + 1 ELSE quotes_sent[s]]
    /\ trades_sent' = [s \in LiveSymbols |->
                          IF s \in new_symbols /\ sub = "ok"
                          THEN trades_sent[s] + 1 ELSE trades_sent[s]]
    /\ alpaca_subscribed_symbols' =
           IF sub = "ok" THEN alpaca_subscribed_symbols \cup new_symbols
           ELSE alpaca_subscribed_symbols
    /\ alpaca_validated_data' =
           IF sub = "ok"
           THEN [s \in DOMAIN vd |->
                    IF s \in new_symbols
                    THEN fetch_missing_data(vd[s], s, missing) ELSE vd[s]]
           ELSE vd

\* one cycle of AlpacaValidator._run_loop
AlpacaCycle(prefilter, sub, missing) ==
    /\ ~ stop_event["tier2"]
    /\ updates < MaxUpdates
    /\ updates' = updates + 1
    /\ LET vd == [s \in DOMAIN alpaca_validated_data \cup prefilter |->
                     IF s \in prefilter
                     THEN [Get(alpaca_validated_data, s, NewValidated)
                               EXCEPT !.volume_avg = prefilter_volume_avg]
                     ELSE alpaca_validated_data[s]]
       IN  IF prefilter # {} /\ stream = 0
           THEN /\ stream' = 1
                /\ Subscribe(prefilter, vd, sub, missing)
           ELSE IF prefilter \ alpaca_subscribed_symbols # {}
           THEN /\ stream' = stream
                /\ Subscribe(prefilter \ alpaca_subscribed_symbols, vd, sub,
                             missing)
           ELSE /\ alpaca_validated_data' = vd
                /\ UNCHANGED <<stream, alpaca_subscribed_symbols, quotes_sent,
                               trades_sent>>
    \* _save_validated_data
    /\ validated_json' =
           IF DOMAIN alpaca_validated_data' # {}
           THEN {alpaca_validated_data'[s] : s \in DOMAIN alpaca_validated_data'}
           ELSE validated_json
    /\ UNCHANGED <<now, deliveryVars, nonTier2Vars>>

\* AlpacaValidator._handle_quote
AlpacaHandleQuote(symbol, bid, ask, bidsz, asksz) ==
    /\ updates < MaxUpdates
    /\ updates' = updates + 1
    /\ alpaca_validated_data' =
           Put(alpaca_validated_data, symbol,
               [Get(alpaca_validated_data, symbol, NewValidated) EXCEPT
                    !.symbol = symbol, !.bid = bid, !.ask = ask,
                    !.bid_size = bidsz, !.ask_size = asksz,
                    !.last_update = now])
    /\ UNCHANGED <<stream, alpaca_subscribed_symbols, validated_json,
                   quotes_sent, trades_sent>>
    /\ UNCHANGED <<now, deliveryVars, nonTier2Vars>>

\* AlpacaValidator._handle_trade
AlpacaHandleTrade(symbol, price, size) ==
    /\ updates < MaxUpdates
    /\ updates' = updates + 1
    /\ alpaca_validated_data' =
           Put(alpaca_validated_data, symbol,
               [Get(alpaca_validated_data, symbol, NewValidated) EXCEPT
                    !.price = price, !.volume = size, !.timestamp = now])
    /\ UNCHANGED <<stream, alpaca_subscribed_symbols, validated_json,
                   quotes_sent, trades_sent>>
    /\ UNCHANGED <<now, deliveryVars, nonTier2Vars>>

---------------------------------------------------------------------------
(* Worker threads: start(), stop() and the loops                           *)

\* the Thread targets of the components
WorkerKinds ==
    {"tier1.scan", "tier2.validate", "tier3.maintain", "tier3.reset",
     "halt.poll", "news.primary", "news.secondary", "news.cleanup",
     "squeeze.scan"}
ComponentOf(k) ==
    CASE k = "tier1.scan" -> "tier1"
      [] k = "tier2.validate" -> "tier2"
      [] k \in {"tier3.maintain", "tier3.reset"} -> "tier3"
      [] k = "halt.poll" -> "halt"
      [] k \in {"news.primary", "news.secondary", "news.cleanup"} -> "news"
      [] k = "squeeze.scan" -> "squeeze"
join_timeout == 5
tier1_sleep == 30
tier2_sleep == 10
tier3_sleep == 30
\* seconds a worker spends in time.sleep between two cycles; a worker that
\* waits on its stop_event instead is woken by stop() at once
SleepSeconds(k) ==
    CASE k = "tier1.scan" -> tier1_sleep
      [] k = "tier2.validate" -> tier2_sleep
      [] k \in {"tier3.maintain", "tier3.reset"} -> tier3_sleep
      [] OTHER -> 0
\* the target is a while loop (the primary news worker is one blocking call)
Loops(k) == k # "news.primary"
\* the target calls its first cycle before the loop and outside any try
FirstCycleUnguarded(k) == k = "tier1.scan"
\* the target runs one cycle before it first tests stop_event
RunsFirstCycle(k) == k \in {"tier1.scan", "halt.poll"}

Live(k) == Len(SelectSeq(workers[k], LAMBDA pos : pos # "ended"))

\* start(): clears stop_event and starts one new thread per target
Start(c) ==
    /\ starts < MaxStarts
    /\ starts' = starts + 1
    /\ stop_event' = [stop_event EXCEPT ![c] = FALSE]
    /\ workers' = [k \in WorkerKinds |->
                      IF ComponentOf(k) = c
                      THEN Append(workers[k],
                                  IF RunsFirstCycle(k) THEN "first" ELSE "cycle")
                      ELSE workers[k]]
    /\ UNCHANGED <<ended_by_exception, now, updates, deliveryVars, nonLifeVars>>

\* where stop() leaves a thread when its join(timeout=5) has returned; `quick`
\* says that whatever the thread was doing took less than the timeout
AfterJoin(k, pos, quick) ==
    IF pos = "ended" THEN "ended"
    ELSE IF pos = "sleep"
         THEN IF SleepSeconds(k) <= join_timeout \/ quick
              THEN "ended" ELSE "sleep"
    ELSE IF quick /\ SleepSeconds(k) <= join_timeout THEN "ended"
    ELSE pos

\* stop(): sets stop_event, closes the stream and joins with a timeout
Stop(c, quick) ==
    /\ ~ stop_event[c]
    /\ \E k \in WorkerKinds : ComponentOf(k) = c /\ workers[k] # << >>
    /\ stop_event' = [stop_event EXCEPT ![c] = TRUE]
    /\ workers' = [k \in WorkerKinds |->
                      IF ComponentOf(k) = c
                      THEN [i \in 1..Len(workers[k]) |->
                               AfterJoin(k, workers[k][i], quick)]
                      ELSE workers[k]]
    /\ UNCHANGED <<starts, ended_by_exception, now, updates, deliveryVars,
                   nonLifeVars>>

\* the end of one cycle of thread i of kind k, with or without an exception
FinishCycle(k, i, raised) ==
    /\ i \in 1..Len(workers[k])
    /\ workers[k][i] \in {"first", "cycle"}
    /\ LET escapes == raised /\ (\/ ~ Loops(k)
                                 \/ (workers[k][i] = "first"
                                     /\ FirstCycleUnguarded(k)))
       IN  /\ workers' = [workers EXCEPT ![k][i] =
                             IF escapes \/ ~ Loops(k) THEN "ended" ELSE "sleep"]
           /\ ended_by_exception' = IF escapes
                                    THEN ended_by_exception \cup {k}
                                    ELSE ended_by_exception
    /\ UNCHANGED <<stop_event, starts, now, updates, deliveryVars, nonLifeVars>>

\* the sleep or wait of thread i ends and the loop tests stop_event
Wake(k, i) ==
    /\ i \in 1..Len(workers[k])
    /\ workers[k][i] = "sleep"
    /\ workers' = [workers EXCEPT ![k][i] =
                      IF stop_event[ComponentOf(k)] THEN "ended" ELSE "cycle"]
    /\ UNCHANGED <<stop_event, starts, ended_by_exception, now, updates,
                   deliveryVars, nonLifeVars>>

---------------------------------------------------------------------------
(* HTTP requests of the producers                                          *)

\* the requests.get / requests.post calls of the scanners
CallSites ==
    {"tier3.session", "tier3.prev_close", "tier2.prevclose", "halt.rss",
     "halt.html", "news.polygon", "news.finnhub", "scanner.feed"}
\* the thread that issues the call
ThreadOf(site) ==
    CASE site = "tier3.session" -> "tier3.maintain"
      [] site = "tier3.prev_close" -> "tier3.callback"
      [] site = "tier2.prevclose" -> "tier2.validate"
      [] site \in {"halt.rss", "halt.html"} -> "halt.poll"
      [] site \in {"news.polygon", "news.finnhub"} -> "news.secondary"
      [] site = "scanner.feed" -> "scanner.poll"
NetThreads == {ThreadOf(site) : site \in CallSites}
short_timeout == 10
long_timeout == 30
\* the timeout argument of the call, if it has one
HasTimeout(site) == site \notin {"tier3.session", "tier2.prevclose"}
RequestTimeout(site) ==
    IF site = "tier3.prev_close" THEN long_timeout ELSE short_timeout
net_step == 10
Running == [site |-> "", since |-> 0]

\* a thread issues the request of a call site and waits for the response
Request(site) ==
    /\ updates < MaxUpdates
    /\ updates' = updates + 1
    /\ blocked[ThreadOf(site)] = Running
    /\ blocked' = [blocked EXCEPT ![ThreadOf(site)] =
                       [site |-> site, since |-> now]]
    /\ UNCHANGED <<now, deliveryVars, nonNetVars>>

\* the provider answers (or the connection fails): the call returns or raises
Respond(thread) ==
    /\ blocked[thread] # Running
    /\ blocked' = [blocked EXCEPT ![thread] = Running]
    /\ UNCHANGED <<now, updates, deliveryVars, nonNetVars>>

\* requests raises Timeout when the time given in the call has passed
TimeoutExpires(thread) ==
    /\ blocked[thread] # Running
    /\ HasTimeout(blocked[thread].site)
    /\ now - blocked[thread].since >= RequestTimeout(blocked[thread].site)
    /\ blocked' = [blocked EXCEPT ![thread] = Running]
    /\ UNCHANGED <<now, updates, deliveryVars, nonNetVars>>

\* time passes while the providers stay silent; it cannot pass the deadline
\* of a request that has one
NetTick ==
    /\ now + net_step <= MaxNetTime
    /\ \A thread \in NetThreads :
           (blocked[thread] # Running /\ HasTimeout(blocked[thread].site)) =>
               now + net_step - blocked[thread].since
                   <= RequestTimeout(blocked[thread].site)
    /\ now' = now + net_step
    /\ UNCHANGED <<blocked, updates, deliveryVars, nonNetVars>>

---------------------------------------------------------------------------
(* Tier 1: Tier1Alpaca.run_scan                                            *)

bar_batch_size == 60
snapshot_batch_size == 75
min_avg_volume == 3000000
min_price_cents == 50
max_price_cents == 1000
\* len(symbols) of master_registry.json; symbol s is the s-th ticker
UniverseSizes == {0, 150}
\* the market of a run: the symbols with a high 30-day average volume and
\* the symbols whose daily bar closes inside the price window
Markets ==
    { [liquid |-> {1, 60, 61, 76, 121, 150}, cheap |-> {1, 61, 75, 76, 150}],
      [liquid |-> {75, 120}, cheap |-> {59, 75, 120}] }
AvgVolume(market, s) == IF s \in market.liquid THEN 4000000 ELSE 3000000
PriceCents(market, s) == IF s \in market.cheap THEN 500 ELSE 1000
BarBatches(n) == 1..Div(n + bar_batch_size - 1, bar_batch_size)
SnapshotBatches(n) == 1..Div(n + snapshot_batch_size - 1, snapshot_batch_size)
NoScan ==
    [ran |-> FALSE, scans |-> 0, n |-> 0,
     market |-> [liquid |-> {}, cheap |-> {}],
     bar_fail |-> {}, snap_fail |-> {}, bar_requests |-> {},
     snap_requests |-> {}, saved |-> FALSE, stopped |-> FALSE]

RECURSIVE calculate_avg_volumes_from(_, _, _, _, _)
\* calculate_avg_volumes: the batches from index i on; acc holds avg_volumes
\* and the numbers of the batches requested
calculate_avg_volumes_from(i, n, market, bar_fail, acc) ==
    IF i >= n THEN acc
    ELSE LET batch == {s \in 1..n : i < s /\ s <= i + bar_batch_size}
             batch_num == Div(i, bar_batch_size) + 1
             requested == [acc EXCEPT !.requests = @ \cup {batch_num}]
             next == IF batch_num \in bar_fail THEN requested
                     ELSE [requested EXCEPT !.avg_volumes =
                              [s \in DOMAIN @ \cup batch |->
                                  IF s \in batch THEN AvgVolume(market, s)
                                  ELSE @[s]]]
         IN  calculate_avg_volumes_from(i + bar_batch_size, n, market,
                                        bar_fail, next)

calculate_avg_volumes(n, market, bar_fail) ==
    calculate_avg_volumes_from(0, n, market, bar_fail,
                               [avg_volumes |-> EmptyDict, requests |-> {}])

\* the symbols of a snapshot batch that pass the filter, in list order
PassingOf(i, n, market, avg_volumes) ==
    SelectSeq([k \in 1..snapshot_batch_size |-> i + k],
              LAMBDA s : /\ s <= n
                         /\ Get(avg_volumes, s, 0) > min_avg_volume
                         /\ min_price_cents < PriceCents(market, s)
                         /\ PriceCents(market, s) < max_price_cents)

\* a loop body that leaves the loop when the snapshot request fails
filter_batch_break_on_error(i, n, market, avg_volumes, snap_fail, stop, acc) ==
    LET batch_num == Div(i, snapshot_batch_size) + 1
    IN  IF acc.broke THEN acc
        ELSE IF stop THEN [acc EXCEPT !.broke = TRUE]
        ELSE IF batch_num \in snap_fail
        THEN [acc EXCEPT !.requests = @ \cup {batch_num}, !.broke = TRUE]
        ELSE [acc EXCEPT !.requests = @ \cup {batch_num},
                         !.filtered = @ \o PassingOf(i, n, market, avg_volumes)]

\* filter_tickers_with_volumes: one pass of the loop body
filter_batch(i, n, market, avg_volumes, snap_fail, stop, acc) ==
    LET batch_num == Div(i, snapshot_batch_size) + 1
    IN  IF acc.broke THEN acc
        ELSE IF stop THEN [acc EXCEPT !.broke = TRUE]
        ELSE IF batch_num \in snap_fail
        THEN [acc EXCEPT !.requests = @ \cup {batch_num}]
        ELSE [acc EXCEPT !.requests = @ \cup {batch_num},
                         !.filtered = @ \o PassingOf(i, n, market, avg_volumes)]

RECURSIVE filter_from(_, _, _, _, _, _, _)
filter_from(i, n, market, avg_volumes, snap_fail, stop, acc) ==
    IF i >= n THEN acc
    ELSE filter_from(i + snapshot_batch_size, n, market, avg_volumes,
                     snap_fail, stop,
                     filter_batch(i, n, market, avg_volumes, snap_fail, stop,
                                  acc))

filter_tickers_with_volumes(n, market, avg_volumes, snap_fail, stop) ==
    filter_from(0, n, market, avg_volumes, snap_fail, stop,
                [filtered |-> << >>, requests |-> {}, broke |-> FALSE])

\* run_scan(): n tickers in the registry; bar_fail and snap_fail are the
\* batches whose request raises
RunScan(n, market, bar_fail, snap_fail) ==
    /\ scan_log.scans < MaxScans
    /\ LET stop == stop_event["tier1"]
           bars == calculate_avg_volumes(n, market, bar_fail)
           snaps == filter_tickers_with_volumes(n, market, bars.avg_volumes,
                                                snap_fail, stop)
           prefilter_data ==
               [k \in 1..Len(snaps.filtered) |->
                   [symbol |-> snaps.filtered[k],
                    volume_avg |-> Get(bars.avg_volumes, snaps.filtered[k], 0)]]
       IN  IF n = 0
           THEN /\ scan_log' = [NoScan EXCEPT !.ran = TRUE,
                                            !.scans = scan_log.scans + 1]
                /\ UNCHANGED prefilter_json
           ELSE /\ prefilter_json' = prefilter_data
                /\ scan_log' = [ran |-> TRUE, scans |-> scan_log.scans + 1,
                                n |-> n, market |-> market,
                                bar_fail |-> bar_fail, snap_fail |-> snap_fail,
                                bar_requests |-> bars.requests,
                                snap_requests |-> snaps.requests,
                                saved |-> TRUE, stopped |-> stop]
    /\ UNCHANGED <<now, updates, deliveryVars, nonTier1Vars>>

\* the wall clock advances by a fraction of the cooldown
CooldownTick ==
    /\ now + cooldown_step <= MaxCooldownTime
    /\ now' = now + cooldown_step
    /\ UNCHANGED <<updates, deliveryVars, tier3Vars, nonTier3Vars>>

---------------------------------------------------------------------------
vars ==
    <<now, updates, deliveryVars, tier3Vars, newsVars, scannerVars,
    monitorVars, squeezeVars, trendVars, lifeVars, tier1Vars, netVars,
    subsVars, tier2Vars, vectorVars, scanVars, pollVars, cleanupVars,
    newsThreadVars, lookupVars>>

Init ==
    /\ now = T0
    /\ updates = 0
    /\ signal_queue = [c \in QueueCategories |-> << >>]
    /\ pushed = [c \in QueueCategories |-> 0]
    /\ dispatched = [c \in QueueCategories |-> << >>]
    /\ removed = [c \in QueueCategories |-> {}]
    /\ emitted = {}
    /\ live_data = EmptyDict
    /\ prev_closes = EmptyDict
    /\ day_highs = EmptyDict
    /\ price_history = EmptyDict
    /\ channels = [c \in ChannelNames |-> << >>]
    /\ no_data_symbols = {}
    /\ prev_close_cache_time = EmptyDict
    /\ failed_categorizations = EmptyDict
    /\ bkgnews_json \in BkgnewsFiles
    /\ lastCat = NoCat
    /\ eval_log = EmptyDict
    /\ seen_news_ids = {}
    /\ news_json = EmptyDict
    /\ news_log = [id \in NewsIds |-> NoLog]
    /\ active_halts = EmptyDict
    /\ active_halts_json = EmptyDict
    /\ resumed_by = {}
    /\ halt_cycle = NoCycle
    /\ squeeze_samples = [s \in MomoSymbols |-> 0]
    /\ squeeze_state = [s \in MomoSymbols |-> NewSqueezeState]
    /\ squeeze_on_run = [s \in MomoSymbols |-> 0]
    /\ squeeze_last_calc = [s \in MomoSymbols |-> 0]
    /\ last_intensity = NoIntensity
    /\ trend_samples = [s \in MomoSymbols |-> 0]
    /\ trend_last_calc = [s \in MomoSymbols |-> 0]
    /\ vector_bars = [s \in MomoSymbols |-> [tf \in Timeframes |-> 0]]
    /\ vector_bar_time = [s \in MomoSymbols |-> [tf \in Timeframes |-> 0]]
    /\ vector_vwap = [s \in MomoSymbols |-> [sum_pv |-> 0, sum_v |-> 0]]
    /\ vector_last_calc = [s \in MomoSymbols |-> 0]
    /\ vector_log = [s \in MomoSymbols |-> NoVectorLog]
    /\ momo_scans = [e \in Engines |-> NoMomoScan]
    /\ current_provider_index = 0
    /\ poll_log = << >>
    /\ cleanup_runs = 0
    /\ lookup_log = [s \in LookupSymbols |-> NoLookup]
    /\ news_calls = [thread \in NewsThreads |-> NoCall]
    /\ cleanup_call = NoCleanup
    /\ news_accepted = {}
    /\ stop_event = [c \in Components |-> FALSE]
    /\ workers = [k \in WorkerKinds |-> << >>]
    /\ starts = 0
    /\ ended_by_exception = {}
    /\ prefilter_json = << >>
    /\ scan_log = NoScan
    /\ blocked = [thread \in NetThreads |-> Running]
    /\ ws = 0
    /\ session_id = 0
    /\ subscribed_symbols = {}
    /\ ws_sent = [s \in CandidateSymbols |-> 0]
    /\ ws_cycled = FALSE
    /\ ws_open = 0
    /\ ws_delivered = {}
    /\ stream = 0
    /\ alpaca_subscribed_symbols = {}
    /\ alpaca_validated_data = EmptyDict
    /\ validated_json = {}
    /\ quotes_sent = [s \in LiveSymbols |-> 0]
    /\ trades_sent = [s \in LiveSymbols |-> 0]

NextChannel ==
    \/ \E symbol \in Symbols, q \in QuotePairs, sz \in QuoteSizes,
          vd \in ValidatedRows :
          \E outcome \in LookupAnswers(symbol, vd) :
              HandleQuote(symbol, q[1], q[2], sz[1], sz[2], vd, outcome)
    \/ \E symbol \in Symbols, tr \in TradeInputs, vd \in ValidatedRows :
          \E outcome \in LookupAnswers(symbol, vd) :
              HandleTrade(symbol, tr[1], tr[2], vd, outcome)
    \/ ProcessSignalQueueTier3
    \/ Tick

SpecChannel == Init /\ [][NextChannel]_vars

NextCooldown ==
    \/ \E symbol \in Symbols, q \in QuotePairs, sz \in QuoteSizes,
          vd \in ValidatedRows :
          \E outcome \in LookupAnswers(symbol, vd) :
              HandleQuote(symbol, q[1], q[2], sz[1], sz[2], vd, outcome)
    \/ \E symbol \in Symbols, tr \in TradeInputs, vd \in ValidatedRows :
          \E outcome \in LookupAnswers(symbol, vd) :
              HandleTrade(symbol, tr[1], tr[2], vd, outcome)
    \/ CooldownTick

SpecCooldown == Init /\ [][NextCooldown]_vars

NextNews ==
    \/ \E news_id \in NewsIds, symbol \in NewsSymbols, headline \in Headlines,
          age \in NewsAges, provider \in Providers :
              ProcessNewsItem([news_id |-> news_id, symbol |-> symbol,
                               headline |-> headline, age |-> age], provider)
    \/ \E c \in {"news"} : ProcessSignalQueue(c)

SpecNews == Init /\ [][NextNews]_vars

NextLookup ==
    \/ \E symbol \in LookupSymbols, outcome \in FetchOutcomes :
          FetchPrevCloses(symbol, outcome)
    \/ LookupTick

SpecLookup == Init /\ [][NextLookup]_vars

NextCleanup ==
    \/ \E item \in PolledItems, provider \in Providers :
          ProcessNewsItem(item, provider)
    \/ CleanupOldNews
    \/ NewsTick

SpecCleanup == Init /\ [][NextCleanup]_vars

NextNewsThreads ==
    \/ \E thread \in NewsThreads, item \in PolledItems,
          provider \in Providers : CheckSeen(thread, item, provider)
    \/ \E thread \in NewsThreads : AddSeen(thread)
    \/ \E thread \in NewsThreads : LoadStore(thread)
    \/ \E thread \in NewsThreads : SaveStore(thread)
    \/ \E thread \in NewsThreads : PutNewsSignal(thread)
    \/ CleanupLoadBkgnews
    \/ CleanupLoadNews
    \/ CleanupSaveBkgnews
    \/ CleanupSaveNews

SpecNewsThreads == Init /\ [][NextNewsThreads]_vars

NextPoll ==
    \/ \E news_items \in UNION {FetchResults(p) : p \in ImplementedProviders} :
          SecondaryCycle(news_items)
    \/ \E c \in {"news"} : ProcessSignalQueue(c)

SpecPoll == Init /\ [][NextPoll]_vars

NextScanner ==
    \E feed \in Feeds : ScannerFetchHalts(feed)

SpecScanner == Init /\ [][NextScanner]_vars

NextMonitor ==
    \E items \in RssFeeds, rows \in HtmlTables : MonitorFetchHalts(items, rows)

SpecMonitor == Init /\ [][NextMonitor]_vars

NextSqueeze ==
    \/ \E symbol \in MomoSymbols, price \in MomoPrices, stats \in HistoryStats :
          UpdateSymbolSqueeze(symbol, price, stats[1], stats[2])
    \/ \E bb_upper \in BandUppers, bb_lower \in BandLowers,
          kc_upper \in ChannelUppers, kc_lower \in ChannelLowers,
          atr \in AtrValues :
          CalculateIntensity(bb_upper, bb_lower, kc_upper, kc_lower, atr)
    \/ \E c \in {"squeeze"} : ProcessSignalQueue(c)
    \/ MomoTick

SpecSqueeze == Init /\ [][NextSqueeze]_vars

NextTrend ==
    \/ \E symbol \in MomoSymbols, price \in MomoPrices,
          trend_strength \in TrendStrengths, confidence \in Confidences :
          UpdateSymbolTrend(symbol, price, trend_strength, confidence)
    \/ MomoTick

SpecTrend == Init /\ [][NextTrend]_vars

NextVector ==
    \/ \E symbol \in MomoSymbols, price \in VectorPrices,
          volume \in VectorVolumes, v_score \in VectorScores,
          vol_quality \in VolQualities :
          UpdateSymbolVector(symbol, price, volume, v_score, vol_quality)
    \/ VectorTick

SpecVector == Init /\ [][NextVector]_vars

NextScan ==
    \/ \E symbol \in Symbols, q \in QuotePairs, sz \in QuoteSizes :
          HandleQuote(symbol, q[1], q[2], sz[1], sz[2], EmptyDict,
                      [kind |-> "error", close |-> 0])
    \/ \E symbol \in Symbols, tr \in TradeInputs :
          HandleTrade(symbol, tr[1], tr[2], EmptyDict,
                      [kind |-> "error", close |-> 0])
    \/ \E stats \in HistoryStats : ScanSqueeze(stats[1], stats[2])
    \/ \E trend_strength \in TrendStrengths, confidence \in Confidences :
          ScanTrend(trend_strength, confidence)
    \/ \E v_score \in VectorScores, vol_quality \in VolQualities :
          ScanVector(v_score, vol_quality)

SpecScan == Init /\ [][NextScan]_vars

NextSubs ==
    \/ \E outcome \in SessionOutcomes : TradierConnect(outcome)
    \/ \E all_symbols \in SUBSET CandidateSymbols,
          outcome \in PrevCloseOutcomes : TradierCycle(all_symbols, outcome)
    \/ \E outcome \in SessionOutcomes : TradierOnClose(outcome)
    \/ TradierOnOpen
SpecSubs == Init /\ [][NextSubs]_vars

NextLife ==
    \/ \E c \in Components : Start(c)
    \/ \E c \in Components, quick \in BOOLEAN : Stop(c, quick)
    \/ \E k \in WorkerKinds, i \in 1..MaxStarts, raised \in BOOLEAN :
          FinishCycle(k, i, raised)
    \/ \E k \in WorkerKinds, i \in 1..MaxStarts : Wake(k, i)
SpecLife == Init /\ [][NextLife]_vars

NextTier1 ==
    \/ \E n \in UniverseSizes, market \in Markets :
          \E bar_fail \in SUBSET BarBatches(n),
             snap_fail \in SUBSET SnapshotBatches(n) :
              RunScan(n, market, bar_fail, snap_fail)
    \/ Start("tier1")
    \/ \E quick \in BOOLEAN : Stop("tier1", quick)
SpecTier1 == Init /\ [][NextTier1]_vars

NextNet ==
    \/ \E site \in CallSites : Request(site)
    \/ \E thread \in NetThreads : Respond(thread)
    \/ \E thread \in NetThreads : TimeoutExpires(thread)
    \/ NetTick
SpecNet == Init /\ [][NextNet]_vars

NextStreams ==
    \/ \E prefilter \in PrefilterFiles, sub \in SubscribeOutcomes,
          missing \in MissingOutcomes : AlpacaCycle(prefilter, sub, missing)
    \/ \E outcome \in SessionOutcomes : TradierConnect(outcome)
    \/ \E all_symbols \in SUBSET LiveSymbols :
          TradierCycle(all_symbols, [kind |-> "error", close |-> 0])
    \/ \E outcome \in SessionOutcomes : TradierOnClose(outcome)
SpecStreams == Init /\ [][NextStreams]_vars

NextLiveState ==
    \/ \E symbol \in LiveSymbols, q \in AlpacaQuotes :
          AlpacaHandleQuote(symbol, q[1], q[2], q[3], q[4])
    \/ \E symbol \in LiveSymbols, tr \in AlpacaTrades :
          AlpacaHandleTrade(symbol, tr[1], tr[2])
    \/ \E symbol \in LiveSymbols, q \in QuotePairs, sz \in QuoteSizes :
          HandleQuote(symbol, q[1], q[2], sz[1], sz[2], EmptyDict,
                      [kind |-> "error", close |-> 0])
    \/ \E symbol \in LiveSymbols, tr \in LiveTrades :
          HandleTrade(symbol, tr[1], tr[2], EmptyDict,
                      [kind |-> "error", close |-> 0])
SpecLiveState == Init /\ [][NextLiveState]_vars

---------------------------------------------------------------------------
(* Channel Classifier *)
Priority == <<"bkgnews", "pregap", "runup", "hod", "rvsl">>
Rank(c) == CHOOSE i \in 1..Len(Priority) : Priority[i] = c

\* C1: an evaluated update yields at most one channel, namely the first rule
\* of the order BreakingNews, PreGap, RunUp, HighOfDay, Reversal that holds
\* of the enriched record (none when no rule holds), and the call enqueues at
\* most one channel record.
C1_FirstMatchOnly ==
    lastCat.evaluated =>
        /\ lastCat.pushes <= 1
        /\ (lastCat.channel = "none") = (lastCat.matching = {})
        /\ lastCat.channel # "none" =>
              /\ lastCat.channel \in lastCat.matching
              /\ \A c \in lastCat.matching : Rank(lastCat.channel) <= Rank(c)
              /\ lastCat.pushes = 1

\* two rules hold of one update and one record was enqueued
C1_Witness ==
    /\ lastCat.evaluated
    /\ {"runup", "rvsl"} \subseteq lastCat.matching
    /\ lastCat.pushes = 1

\* C2: whenever no source (candidate data, cache, on-demand lookup) holds a
\* previous close above 0 for the symbol, the enriched gap_pct is 0; and no
\* enrichment divides by a zero previous close.
C2_GapZeroWithoutPrevClose ==
    /\ ~ lastCat.raised
    /\ (lastCat.evaluated /\ lastCat.known_prev <= 0) => lastCat.gap_pct = 0

\* an update with a price was enriched while the cache held a close <= 0
C2_Witness ==
    /\ lastCat.evaluated
    /\ lastCat.known_prev <= 0
    /\ lastCat.symbol \in DOMAIN prev_closes
    /\ prev_closes[lastCat.symbol] < 0
    /\ live_data[lastCat.symbol].price > 0

(* Event delivery *)
\* C9: within each category the drain dispatches records in the order in
\* which they were pushed.
C9_FifoWithinCategory ==
    \A c \in QueueCategories :
        \A i, j \in 1..Len(dispatched[c]) :
            i < j => dispatched[c][i].seq < dispatched[c][j].seq

\* two records pushed while the first was still queued were both dispatched
C9_Witness ==
    \E c \in QueueCategories :
        /\ Len(dispatched[c]) >= 2
        /\ Len(signal_queue[c]) >= 1

\* C10: every record taken off a queue was dispatched to the consumer,
\* exactly once.
C10_RemovedRecordsDispatched ==
    \A c \in QueueCategories :
        \A n \in removed[c] :
            Cardinality({i \in 1..Len(dispatched[c]) :
                             dispatched[c][i].seq = n}) = 1

(* News Aggregator *)
\* C3: a news id yields at most one news event however often it is
\* processed, by the same provider or by several.
C3_OneEventPerNewsId ==
    \A id \in NewsIds : news_log[id].events <= 1

\* an accepted article came in again from a second provider
C3_Witness ==
    \E id \in NewsIds :
        /\ news_log[id].calls >= 2
        /\ Cardinality(news_log[id].providers) >= 2
        /\ news_log[id].events = 1

(* Halt Reconciler *)
\* C4: a feed entry moves a symbol from Halted to Resumed only if the
\* entry's resume time is strictly after the entry's halt time.
C4_ResumeOnlyAfterHalt ==
    \A entry \in resumed_by :
        /\ entry.halt_time # 0
        /\ entry.resume_time # 0
        /\ entry.resume_time > entry.halt_time

\* C5: when one fetch cycle sees an RSS entry inferred Halted and a table
\* row with a resume time after its halt time for the same symbol, the merged
\* record of that symbol has status RESUMED.
C5_TableResumeWins ==
    \A symbol \in MonitorSymbols :
        (/\ symbol \in DOMAIN halt_cycle.rss
         /\ halt_cycle.rss[symbol].status = "HALTED"
         /\ symbol \in halt_cycle.table_resumed)
        => (/\ symbol \in DOMAIN halt_cycle.all_halts
            /\ halt_cycle.all_halts[symbol].status = "RESUMED")

(* Momo engines *)
\* C6: the squeeze intensity is never negative, whatever the band values and
\* the ATR, and every squeeze record that is queued or dispatched carries an
\* intensity of at least 0.
C6_IntensityNonNegative ==
    /\ last_intensity.intensity >= 0
    /\ \A i \in 1..Len(signal_queue["squeeze"]) :
           signal_queue["squeeze"][i].tag.intensity >= 0
    /\ \A i \in 1..Len(dispatched["squeeze"]) :
           dispatched["squeeze"][i].tag.intensity >= 0

\* the intensity has been computed from bands wider than the channel, from a
\* channel of negative width and from an ATR that is not positive
C6_Witness ==
    /\ last_intensity.called
    /\ last_intensity.atr > 0
    /\ last_intensity.kc_width > 0
    /\ last_intensity.bb_width > last_intensity.kc_width
    /\ last_intensity.intensity = 0

\* C7: the status of a symbol becomes FIRED only from COILING; FIRED is never
\* entered from IDLE.
C7_FiredOnlyFromCoiling ==
    [][\A symbol \in MomoSymbols :
          (squeeze_state'[symbol].status = "FIRED"
           /\ squeeze_state[symbol].status # "FIRED")
          => squeeze_state[symbol].status = "COILING"]_vars

\* a symbol has fired, and its record has been dispatched
C7_Witness ==
    \E symbol \in MomoSymbols :
        /\ squeeze_state[symbol].status = "FIRED"
        /\ \E i \in 1..Len(dispatched["squeeze"]) :
               dispatched["squeeze"][i].tag.status = "FIRED"

(* Event Delivery Queue *)
\* C8: every signal that reaches the consumer is emitted by the consumer-side
\* drain; no worker thread emits a signal directly.
C8_EmittedOnlyByDrain ==
    \A e \in emitted : e[2] = "gui"

\* C11: the undrained records of a category never exceed a fixed capacity,
\* however many pushes happen between two drain ticks: a capacity below the
\* number of pushes of a run bounds every queue.
C11_QueueBounded ==
    \A c \in QueueCategories : Len(signal_queue[c]) < MaxUpdates

(* News Aggregator *)
\* C17: an incoming item is dropped as already seen only when an item with
\* the same provider and the same id was processed before.
C17_DroppedOnlyForSamePair ==
    \A id \in NewsIds : ~ news_log[id].dropped_new_pair


\* C12: once the stream has been reconnected and the maintenance loop has
\* completed a cycle on the new connection, every symbol of the current
\* subscription set has been named in a subscribe request on that connection.
C12_ResubscribedAfterReconnect ==
    (ws > 1 /\ ws_cycled) =>
        \A s \in subscribed_symbols : ws_sent[s] >= 1


\* C18: no symbol is named in a second subscription request of the same kind
\* on the same connection, by Tier 2 or by Tier 3.
C18_NoSecondSubscription ==
    /\ \A s \in LiveSymbols : quotes_sent[s] <= 1 /\ trades_sent[s] <= 1
    /\ \A s \in CandidateSymbols : ws_sent[s] <= 1


(* Live state of Tier 2 and Tier 3 *)
QuoteFields == {"bid", "ask", "bid_size", "ask_size", "last_update"}
TradeFields == {"price", "volume", "timestamp"}
AllSymbols == Symbols \cup LiveSymbols

\* between `old` and `new` (dicts of entries) only the fields `fields` of the
\* entry of `symbol` differ; an entry that did not exist counts as `blank`
OnlyFieldsChanged(old, new, symbol, fields, blank) ==
    /\ DOMAIN new = DOMAIN old \cup {symbol}
    /\ \A s \in DOMAIN old \ {symbol} : new[s] = old[s]
    /\ LET before == Get(old, symbol, blank)
       IN  \A f \in DOMAIN before : f \notin fields => new[symbol][f] = before[f]

IsTier3Quote(symbol) ==
    \E q \in QuotePairs, sz \in QuoteSizes, vd \in ValidatedRows,
       outcome \in FetchOutcomes :
        HandleQuote(symbol, q[1], q[2], sz[1], sz[2], vd, outcome)
IsTier3Trade(symbol) ==
    \E tr \in TradeInputs, vd \in ValidatedRows, outcome \in FetchOutcomes :
        HandleTrade(symbol, tr[1], tr[2], vd, outcome)
IsTier2Quote(symbol) ==
    \E q \in AlpacaQuotes : AlpacaHandleQuote(symbol, q[1], q[2], q[3], q[4])
IsTier2Trade(symbol) ==
    \E tr \in AlpacaTrades : AlpacaHandleTrade(symbol, tr[1], tr[2])

\* the frame of the four handlers, with `extra` the fields a quote may write
\* besides the quote fields
UpdateFrame(extra) ==
    \A symbol \in AllSymbols :
        /\ IsTier3Quote(symbol) =>
               OnlyFieldsChanged(live_data, live_data', symbol,
                                 QuoteFields \cup extra, NewEntry)
        /\ IsTier3Trade(symbol) =>
               OnlyFieldsChanged(live_data, live_data', symbol, TradeFields,
                                 NewEntry)
        /\ IsTier2Quote(symbol) =>
               OnlyFieldsChanged(alpaca_validated_data, alpaca_validated_data',
                                 symbol, QuoteFields \cup extra, NewValidated)
        /\ IsTier2Trade(symbol) =>
               OnlyFieldsChanged(alpaca_validated_data, alpaca_validated_data',
                                 symbol, TradeFields, NewValidated)

\* C19 as stated: a quote update changes only bid, ask, bid/ask size and the
\* last-update time of its symbol's entry, a trade update only price, volume
\* and trade timestamp; every other field and every other entry is unchanged.
C19_QuoteAndTradeFrame == [][UpdateFrame({})]_vars

\* C19, amended: a quote update may also write the symbol key of its entry.
C19_QuoteAndTradeFrameWithSymbol == [][UpdateFrame({"symbol"})]_vars

\* both symbols have an entry, one of them updated by a quote and by a trade
C19_Witness ==
    /\ DOMAIN live_data = LiveSymbols
    /\ \E s \in LiveSymbols :
           live_data[s].last_update # 0 /\ live_data[s].timestamp # 0


(* Worker threads *)
\* C13: an exception raised inside a cycle never ends the worker it was
\* raised in: no thread of any kind has been ended by an exception.
C13_ExceptionNeverEndsWorker == ended_by_exception = {}

\* C14: however often start() is called, at most one thread of each worker
\* kind is running.
C14_OneLoopPerKind == \A k \in WorkerKinds : Live(k) <= 1

\* C15: once stop() of a component has returned, every worker thread of the
\* component has ended.
C15_StoppedMeansEnded ==
    \A k \in WorkerKinds : stop_event[ComponentOf(k)] => Live(k) = 0


(* HTTP requests *)
\* C16: no request keeps its thread waiting longer than the longest timeout
\* of the pipeline, however long the provider stays silent.
C16_NoThreadBlockedPastTimeout ==
    \A thread \in NetThreads :
        blocked[thread] # Running =>
            now - blocked[thread].since <= long_timeout


(* Tier 1 *)
\* the candidates of the last run whose bar batch and snapshot batch both
\* succeeded
ExpectedCandidates ==
    {s \in 1..scan_log.n :
        /\ Div(s - 1, bar_batch_size) + 1 \notin scan_log.bar_fail
        /\ Div(s - 1, snapshot_batch_size) + 1 \notin scan_log.snap_fail
        /\ AvgVolume(scan_log.market, s) > min_avg_volume
        /\ min_price_cents < PriceCents(scan_log.market, s)
        /\ PriceCents(scan_log.market, s) < max_price_cents}

\* C20: a run that was not stopped requests every sub-batch, whichever of
\* them failed, and ends by saving exactly the candidates of the sub-batches
\* that succeeded.
C20_FailedBatchOnlySkipped ==
    (scan_log.ran /\ scan_log.n > 0 /\ ~ scan_log.stopped) =>
        /\ scan_log.bar_requests = BarBatches(scan_log.n)
        /\ scan_log.snap_requests = SnapshotBatches(scan_log.n)
        /\ scan_log.saved
        /\ {prefilter_json[k].symbol : k \in 1..Len(prefilter_json)}
               = ExpectedCandidates
        /\ \A k \in 1..Len(prefilter_json) :
               prefilter_json[k].volume_avg
                   = AvgVolume(scan_log.market, prefilter_json[k].symbol)

\* a run in which the first bar batch and the first snapshot batch failed and
\* later batches still put candidates into the saved list
C20_Witness ==
    /\ scan_log.ran /\ ~ scan_log.stopped
    /\ 1 \in scan_log.bar_fail
    /\ 1 \in scan_log.snap_fail
    /\ Len(prefilter_json) > 0



(* Cooldown of the Channel Classifier *)
\* a handler has run _categorize_symbol(symbol) in this step
IsTier3Update(symbol) == updates' = updates + 1 /\ lastCat'.symbol = symbol
LastEval(symbol) == Get(eval_log, symbol, NoEval)
EnrichmentState ==
    <<prev_closes, day_highs, price_history, no_data_symbols,
      prev_close_cache_time, channels, failed_categorizations, eval_log>>

\* C21: after an evaluation of a symbol at time t that matched no channel,
\* an update of the symbol before t + 60 s is skipped (no enrichment, no
\* event), and an update at or after t + 60 s is evaluated.
C21_CooldownAfterNoMatch ==
    [][\A s \in Symbols :
          (IsTier3Update(s) /\ LastEval(s).count > 0
                            /\ LastEval(s).channel = "none") =>
              IF now < LastEval(s).t + categorization_cooldown
              THEN /\ ~ lastCat'.evaluated
                   /\ UNCHANGED EnrichmentState
                   /\ UNCHANGED deliveryVars
              ELSE /\ lastCat'.evaluated
                   /\ eval_log'[s].count = eval_log[s].count + 1
                   /\ eval_log'[s].t = now]_vars

\* a failed evaluation, a skipped update, then the evaluation of the update
\* that arrived exactly when the cooldown ended
C21_Witness ==
    /\ updates = 3
    /\ LastEval("X").count = 2
    /\ lastCat.evaluated
    /\ "X" \in DOMAIN failed_categorizations
    /\ (LastEval("X").channel = "none" =>
            LastEval("X").t = T0 + categorization_cooldown)
    /\ (LastEval("X").channel # "none" =>
            now = failed_categorizations["X"] + categorization_cooldown)

\* C22: when the most recent evaluation of a symbol matched a channel, the
\* next update of the symbol is evaluated, and every update whose
\* evaluation matches a channel puts one channel event on the queue.
C22_MatchedIsNeverCooledDown ==
    [][\A s \in Symbols :
          IsTier3Update(s) =>
              /\ (LastEval(s).count > 0 /\ LastEval(s).channel # "none") =>
                     lastCat'.evaluated
              /\ (lastCat'.evaluated /\ lastCat'.channel # "none") =>
                     LET q == signal_queue'["channel"]
                     IN  /\ Len(q) = Len(signal_queue["channel"]) + 1
                         /\ q[Len(q)].tag =
                                [channel |-> lastCat'.channel, symbol |-> s]
                ]_vars

\* a failed evaluation, and after its cooldown two matching evaluations in
\* a row, each of which queued an event
C22_Witness ==
    /\ "X" \in DOMAIN failed_categorizations
    /\ LastEval("X").count = 3
    /\ LastEval("X").channel # "none"
    /\ pushed["channel"] = 2



(* High of day *)
\* C23: after every evaluation the running session high of the symbol is the
\* highest price evaluated so far, and from the second evaluation on is_hod
\* is true exactly when the price is strictly above the highest price of
\* the earlier evaluations.
C23_RunningHighIsHighestPrice ==
    (lastCat.evaluated /\ ~ lastCat.raised) =>
        LET log == LastEval(lastCat.symbol)
        IN  /\ lastCat.hod_price = log.high
            /\ Get(day_highs, lastCat.symbol, lastCat.price) = log.high
            /\ log.count > 1 => (lastCat.is_hod = (lastCat.price > log.prior_high))



(* Breaking news in the enrichment *)
\* the keys of the items the breaking store holds for a symbol
BreakingItemsOf(symbol) ==
    {k \in DOMAIN bkgnews_json : bkgnews_json[k].symbol = symbol}

\* C24: when the breaking store holds an item for the symbol of an evaluated
\* update, the enrichment sets has_breaking_news and the age of that item,
\* and with an age of at most 2 h the update is classified BreakingNews; when
\* the store holds no item for the symbol, has_breaking_news is false.
C24_BreakingNewsLookedUp ==
    (lastCat.evaluated /\ ~ lastCat.raised) =>
        LET symbol == lastCat.symbol
            t == LastEval(symbol).t
        IN  IF BreakingItemsOf(symbol) # {}
            THEN /\ lastCat.has_breaking_news
                 /\ \E k \in BreakingItemsOf(symbol) :
                        LET age == t - bkgnews_json[k].timestamp
                        IN  /\ lastCat.news_age_sec = age
                            /\ age <= news_age_max_hours * 3600 =>
                                   lastCat.channel = "bkgnews"
            ELSE ~ lastCat.has_breaking_news



(* Squeeze status *)
\* C25: the squeeze status of a symbol changes only Idle -> Coiling,
\* Coiling -> Fired and Fired -> Idle, and Fired -> Idle only when more than
\* 15 seconds have passed since the fire.
C25_StatusChangesOnlyAlongCycle ==
    [][\A s \in MomoSymbols :
          LET old == squeeze_state[s]
              new == squeeze_state'[s]
          IN  old.status # new.status =>
                  \/ old.status = "IDLE" /\ new.status = "COILING"
                  \/ old.status = "COILING" /\ new.status = "FIRED"
                  \/ /\ old.status = "FIRED" /\ new.status = "IDLE"
                     /\ now - old.last_fire > fired_hold]_vars



(* Warm-up of the Momo engines *)
warm_up_samples == 20
\* the samples MomoVector has of a symbol: the calls that collected its
\* price, or the entries of its three histories, whichever is more
VectorSamples(s) ==
    Max(vector_log[s].collected,
        vector_bars[s]["1min"] + vector_bars[s]["5min"] + vector_bars[s]["15min"])

\* C26: no Momo engine has computed or emitted anything for a symbol of
\* which it has collected fewer than 20 samples.
C26_NoOutputBeforeWarmUp ==
    \A s \in MomoSymbols :
        /\ squeeze_last_calc[s] > 0 => squeeze_samples[s] >= warm_up_samples
        /\ trend_last_calc[s] > 0 => trend_samples[s] >= warm_up_samples
        /\ (vector_last_calc[s] > 0 \/ vector_log[s].computed > 0
                                    \/ vector_log[s].emitted > 0) =>
               VectorSamples(s) >= warm_up_samples



(* Scans of the Momo engines *)
\* C27: every scan of a Momo engine has processed every symbol the live
\* market-state cache held at the time of the scan, classified or not.
C27_ScanCoversLiveCache ==
    \A e \in Engines :
        momo_scans[e].scans > 0 =>
            momo_scans[e].present \subseteq momo_scans[e].processed



(* Age categories of the news *)
half_hour == 1800
forty_eight_hours == 172800
\* the ages at which the category may change, and the ages of the items
AgeBoundaries ==
    {0, half_hour - 1, half_hour, half_hour + 1, forty_eight_hours,
     forty_eight_hours + 1} \cup (NewsAges \ {-1})

\* the category C30 gives a headline of a given age
ExpectedCategory(headline, age) ==
    IF headline.matches /\ ~ headline.exclude
    THEN IF age <= half_hour THEN "breaking"
         ELSE IF age <= forty_eight_hours THEN "general"
         ELSE "ignore"
    ELSE "ignore"

\* what processing `item` must have done to the stores and the queue
StoredAsCategorized(item) ==
    LET cat == ExpectedCategory(item.headline, item.age)
        processed == /\ item.news_id \notin seen_news_ids
                     /\ ~ IsCanadian(item.symbol)
                     /\ item.age # -1
        queued == pushed'["news"] = pushed["news"] + 1
    IN  /\ bkgnews_json' # bkgnews_json => cat = "breaking"
        /\ news_json' # news_json => cat = "general"
        /\ pushed' # pushed => cat \in {"breaking", "general"}
        /\ (processed /\ cat = "breaking") =>
               item.news_id \in DOMAIN bkgnews_json' /\ queued
        /\ (processed /\ cat = "general") =>
               item.news_id \in DOMAIN news_json' /\ queued

NextProvider(provider) ==
    LET i == CHOOSE j \in 1..Len(secondary_providers) :
                 secondary_providers[j] = provider
    IN  secondary_providers[(i % Len(secondary_providers)) + 1]

\* C28: successive polling cycles use successive providers of the
\* configured cyclic order.
C28_RoundRobin ==
    \A i \in 1..(Len(poll_log) - 1) :
        poll_log[i + 1].provider = NextProvider(poll_log[i].provider)

\* C29: after a failed fetch the next provider is fetched from at once,
\* before the 3-minute cycle interval has passed.
C29_FailureRotatesAtOnce ==
    \A i \in 1..(Len(poll_log) - 1) :
        poll_log[i].failed =>
            /\ poll_log[i + 1].provider = NextProvider(poll_log[i].provider)
            /\ poll_log[i + 1].t < poll_log[i].t + poll_interval


(* News cleanup *)
IsCleanup == cleanup_runs' = cleanup_runs + 1
NewsAge(item) == now - item.timestamp

\* C31: after a run of the cleanup with no concurrent writer the breaking
\* store holds no item older than 2 hours, neither store holds an item older
\* than 72 hours, every item that was in the breaking store with an age
\* between 2 and 72 hours is in the general store, and all younger items are
\* unchanged.
C31_CleanupByAge ==
    [][IsCleanup =>
        /\ \A k \in DOMAIN bkgnews_json' :
               NewsAge(bkgnews_json'[k]) <= promote_age
        /\ \A k \in DOMAIN news_json' :
               NewsAge(news_json'[k]) <= delete_age
        /\ \A k \in DOMAIN bkgnews_json :
               LET age == NewsAge(bkgnews_json[k])
               IN  /\ (promote_age < age /\ age <= delete_age) =>
                          /\ k \in DOMAIN news_json'
                          /\ news_json'[k] = bkgnews_json[k]
                   /\ age <= promote_age =>
                          /\ k \in DOMAIN bkgnews_json'
                          /\ bkgnews_json'[k] = bkgnews_json[k]
        /\ \A k \in (DOMAIN news_json) \ DOMAIN bkgnews_json :
               NewsAge(news_json[k]) <= delete_age =>
                   /\ k \in DOMAIN news_json'
                   /\ news_json'[k] = news_json[k]
      ]_vars


(* News threads *)
\* C36: when two threads process items with the same news id concurrently,
\* at most one passes the seen-id check, so at most one event is enqueued
\* for that id under every interleaving.
C36_OneEventUnderInterleaving ==
    \A news_id \in NewsIds :
        /\ Cardinality({thread \in NewsThreads :
               /\ news_calls[thread].pc # "idle"
               /\ news_calls[thread].item.news_id = news_id}) <= 1
        /\ news_log[news_id].events <= 1

\* C37: under every interleaving of the news threads an item accepted as
\* breaking or general is in its persisted store once its processing has
\* finished and until the cleanup moves or deletes it by age.
C37_AcceptedItemStaysStored ==
    \A a \in news_accepted :
        LET age == now - a.timestamp
        IN  /\ (a.category = "breaking" /\ age <= promote_age) =>
                   a.news_id \in DOMAIN bkgnews_json
            /\ (a.category = "general" /\ age <= delete_age) =>
                   a.news_id \in DOMAIN news_json


(* Halt records of the NASDAQ feed *)
\* C32: once a symbol's halt record is Resumed the symbol is no longer in the
\* persisted active-halt set.
C32_ResumedLeavesActiveSet ==
    \A symbol \in DOMAIN active_halts :
        active_halts[symbol].status = "Resumed" =>
            symbol \notin DOMAIN active_halts_json

DatedToday(entry) == entry.halt_time # 0 /\ entry.halt_time >= today_start
EntriesOf(feed) == {feed[i] : i \in 1..Len(feed)}

\* the feed holds for `symbol` an earlier halt that was resumed and a later
\* halt that is not resumed
ResumedThenHaltedAgain(feed, symbol) ==
    \E a, b \in EntriesOf(feed) :
        /\ a.symbol = symbol /\ b.symbol = symbol
        /\ DatedToday(a) /\ DatedToday(b)
        /\ a.halt_time < a.resume_time
        /\ a.resume_time < b.halt_time
        /\ b.resume_time = 0
        /\ \A e \in EntriesOf(feed) : e \in {a, b}

\* C33: a record that is Halted with halt time H moves to Resumed only on a
\* feed entry whose resume timestamp is strictly after H; when a feed holds
\* for one symbol an earlier halt that was resumed and a later halt that is
\* not resumed, the status after the fetch cycle is Halted whatever the order
\* of the two entries.
C33_ResumeAfterRecordedHalt ==
    [][\A feed \in Feeds :
          \/ \A symbol \in HaltSymbols :
                /\ (/\ symbol \in DOMAIN active_halts
                     /\ active_halts[symbol].status = "Halted"
                     /\ symbol \in DOMAIN active_halts'
                     /\ active_halts'[symbol].status = "Resumed")
                    => \E e \in EntriesOf(feed) :
                           /\ e.symbol = symbol
                           /\ e.resume_time > active_halts[symbol].halt_time
                /\ ResumedThenHaltedAgain(feed, symbol)
                    => /\ symbol \in DOMAIN active_halts'
                       /\ active_halts'[symbol].status = "Halted"
          \/ ~ ScannerFetchHalts(feed)
      ]_vars

\* C34: a feed entry whose halt date is not today's, is missing or cannot be
\* parsed neither creates nor changes a halt record.
C34_OnlyTodaysEntries ==
    [][\A feed \in Feeds :
          \/ (\A e \in EntriesOf(feed) : ~ DatedToday(e))
                 => active_halts' = active_halts
          \/ ~ ScannerFetchHalts(feed)
      ]_vars


(* Previous-close lookups *)
one_hour == 3600
\* C35: fetch_prev_closes issues no lookup for a symbol on the no-data
\* blacklist, nor for a symbol whose last successful lookup is less than one
\* hour old; a symbol for which the provider confirmed no data is put on the
\* blacklist and is never looked up again, while a transient error neither
\* caches nor blacklists the symbol.
C35_LookupsCachedAndBlacklisted ==
    [][\A symbol \in LookupSymbols :
          LET before == lookup_log[symbol]
              after == lookup_log'[symbol]
              issued == after.requests = before.requests + 1
          IN  after.calls = before.calls + 1 =>
                /\ symbol \in no_data_symbols => ~ issued
                /\ before.confirmed_no_data => ~ issued
                /\ (before.last_success # -1
                    /\ now - before.last_success < one_hour) => ~ issued
                /\ (issued /\ after.last_kind = "nodata") =>
                       symbol \in no_data_symbols'
                /\ (issued /\ after.last_kind = "error") =>
                       UNCHANGED <<prev_closes, prev_close_cache_time,
                                   no_data_symbols>>
      ]_vars

\* X was confirmed to have no data and was then named again without a
\* request; Z was looked up with success, named again within the hour
\* without a request and looked up again one hour later
C35_Witness ==
    /\ lookup_log["X"].confirmed_no_data
    /\ lookup_log["X"].calls > lookup_log["X"].requests
    /\ lookup_log["Z"].last_success = T0 + one_hour
    /\ lookup_log["Z"].requests = 2
    /\ lookup_log["Z"].calls = 3


(* Subscribe messages of Tier 3 *)
\* C38: a symbol is in Tier 3's subscribed set only if a subscription message
\* containing it was sent successfully; a symbol whose send failed stays
\* outside the set and is sent again on a later cycle.
C38_SubscribedOnlyIfSent ==
    \A s \in subscribed_symbols :
        \E connection \in 1..ws : <<connection, s>> \in ws_delivered


(* Member lists of the channels *)
ListsHolding(symbol) ==
    {c \in ChannelNames :
        \E i \in 1..Len(channels[c]) : channels[c][i] = symbol}

\* C39: a symbol is in at most one of the per-channel member lists, the list
\* of the channel of its most recent successful classification.
C39_OneListPerSymbol ==
    \A symbol \in Symbols :
        /\ Cardinality(ListsHolding(symbol)) <= 1
        /\ (symbol \in DOMAIN eval_log /\ eval_log[symbol].channel # "none")
               => ListsHolding(symbol) = {eval_log[symbol].channel}


\* C40: after each computed tick of MomoSqueeze the coiling-bar counter of a
\* symbol is at least 1 exactly when its status is COILING and is 0 when the
\* status is IDLE or FIRED; while COILING it is the number of squeeze-on
\* computed ticks in a row of the current coil.
C40_BarsCoilingCountsTheCoil ==
    \A symbol \in MomoSymbols :
        LET st == squeeze_state[symbol]
        IN  /\ st.bars_coiling >= 1 <=> st.status = "COILING"
            /\ st.status \in {"IDLE", "FIRED"} => st.bars_coiling = 0
            /\ st.status = "COILING" => st.bars_coiling = squeeze_on_run[symbol]

\* a coil that started again after a fire: the counter is back at 1
C40_Witness ==
    \E symbol \in MomoSymbols :
        /\ squeeze_state[symbol].status = "COILING"
        /\ squeeze_state[symbol].bars_coiling = 1
        /\ squeeze_state[symbol].last_fire > 0

====
